---- MODULE Spec2Model ----
(***************************************************************************)
(* Transaction firewall of agentguard-evm: the spending-limit ledger       *)
(* (SpendingLimits), the contract allowlist/blocklist (ContractAllowlist), *)
(* the transaction simulator (TransactionSimulator) and the firewall       *)
(* pipeline (TransactionFirewall.check) that composes them, and the agent  *)
(* wrapper (GuardedEVMAgent) that acts on the guard's decision.            *)
(* Spec: the ledger; SpecCls: the classifier; SpecFw: two callers of one   *)
(* firewall; SpecOne / SpecOneFair: one caller of a firewall whose chain   *)
(* collaborator may be silent; SpecSim: the simulator called on its own;   *)
(* SpecEst: estimateSpend called on its own; SpecBlock: one caller of a    *)
(* firewall whose operator blocks contracts; SpecScan: one caller sending  *)
(* varied calldata; SpecWrap: one caller of the wrapper; SpecCap: one      *)
(* caller of a firewall whose caps are above the fallback estimate;        *)
(* SpecCreate: one caller submitting contract creations; SpecStatus: the   *)
(* ledger read through the firewall's status calls; SpecConfig: a ledger   *)
(* constructed from any config.                                            *)
(***************************************************************************)
EXTENDS Integers, Sequences, FiniteSets, TLC

\* ------------------------------------------------------------------ bounds
\* Spending caps are drawn from 0..MaxCap (wei, scaled).
MaxCap == 2
\* Amounts handed to check / recordSpend are drawn from -1..MaxAmt.
MaxAmt == 2
\* The wall clock runs over the ticks 0..MaxNow.
MaxNow == 2
\* Clock ticks per UTC calendar day (24 hours).
TicksPerDay == 2
\* At most MaxRecords recordSpend calls in one behaviour.
MaxRecords == 2

Caps == 0..MaxCap
Amounts == (0 - 1)..MaxAmt
Ticks == 0..MaxNow

VARIABLES
  now,            \* the wall clock read by new Date()
  maxDaily,       \* SpendingLimits.maxDaily
  maxPerTx,       \* SpendingLimits.maxPerTx
  dailySpend,     \* SpendingLimits.dailySpend
  lastResetDate,  \* SpendingLimits.lastResetDate
  op,             \* the last call made on the ledger, with its argument
  ret,            \* what that call returned
  spentAt,        \* history: amount recorded at each clock tick
  nRec,           \* history: number of recordSpend calls so far
  pending,        \* history: the amount the last passing check approved
  disciplined,    \* history: every recordSpend so far followed its own passing check
  manualResetDate, \* history: the date of the last resetDailySpend call, or -1
  allowlistMode,  \* ContractAllowlist.allowlist !== null
  allowlist,      \* ContractAllowlist.allowlist (empty when null)
  blocklist,      \* ContractAllowlist.blocklist
  allowSystemContracts,  \* ContractAllowlist.allowSystemContracts
  requireSimulation,  \* TransactionFirewall.requireSimulation
  hasPayer,       \* TransactionFirewall.payerAddress is set
  maxRetries,     \* TransactionSimulator.maxRetries
  chainAnswers,   \* the chain collaborator settles the promises of its calls
  dryRun,         \* GuardedEVMAgent.config.dryRun
  cs,             \* per caller: where its firewall.check() is, and its locals
  result,         \* per caller: the FirewallResult its last check() returned
  nChk,           \* history: number of firewall.check() calls started
  acceptedSum     \* history: spend accepted by checks since the last ledger write

ledgerVars == <<maxDaily, maxPerTx, dailySpend, lastResetDate>>
histVars == <<spentAt, nRec, pending, disciplined, manualResetDate>>
clsVars == <<allowlistMode, allowlist, blocklist, allowSystemContracts>>
cfgVars == <<requireSimulation, hasPayer, maxRetries, chainAnswers, dryRun>>
fwVars == <<cfgVars, cs, result, nChk, acceptedSum>>
vars == <<now, ledgerVars, op, ret, histVars, clsVars, fwVars>>

NoRet == [kind |-> "none"]
NoPending == [amount |-> 0, date |-> 0 - 1]

\* ------------------------------------------------------ SpendingLimits
\* new Date().toISOString().split('T')[0]: the UTC calendar day of the clock.
GetTodayDate(t) == t \div TicksPerDay

\* Variant: the date comparison is dropped and the counter is never cleared.
MaybeResetDaily_Never(ds, lrd, today) ==
  [dailySpend |-> ds, lastResetDate |-> lrd]

\* The ledger fields after maybeResetDaily() has run at date `today`.
MaybeResetDaily(ds, lrd, today) ==
  IF today # lrd
    THEN [dailySpend |-> 0, lastResetDate |-> today]
    ELSE [dailySpend |-> ds, lastResetDate |-> lrd]

\* Variant: the daily test runs before the per-transaction test.
LimitsCheck_DailyFirst(ds, amountWei, perTx, daily) ==
  IF ds + amountWei > daily
    THEN [kind |-> "check", allowed |-> FALSE,
          reason |-> "would exceed daily limit",
          currentDailySpend |-> ds,
          remainingDaily |-> IF daily > ds THEN daily - ds ELSE 0]
    ELSE IF amountWei > perTx
      THEN [kind |-> "check", allowed |-> FALSE,
            reason |-> "exceeds per-tx limit",
            currentDailySpend |-> ds,
            remainingDaily |-> IF daily > ds THEN daily - ds ELSE 0]
      ELSE [kind |-> "check", allowed |-> TRUE, reason |-> "none",
            currentDailySpend |-> ds,
            remainingDaily |-> daily - (ds + amountWei)]

\* Variant: the daily test uses >= and so refuses an amount that exactly
\* fills the cap.
LimitsCheck_Strict(ds, amountWei, perTx, daily) ==
  IF amountWei > perTx
    THEN [kind |-> "check", allowed |-> FALSE, reason |-> "exceeds per-tx limit",
          currentDailySpend |-> ds,
          remainingDaily |-> IF daily > ds THEN daily - ds ELSE 0]
    ELSE IF ds + amountWei >= daily
      THEN [kind |-> "check", allowed |-> FALSE,
            reason |-> "would exceed daily limit",
            currentDailySpend |-> ds,
            remainingDaily |-> IF daily > ds THEN daily - ds ELSE 0]
      ELSE [kind |-> "check", allowed |-> TRUE, reason |-> "none",
            currentDailySpend |-> ds,
            remainingDaily |-> daily - (ds + amountWei)]

\* The body of check() after maybeResetDaily(): ds is the current dailySpend.
LimitsCheck(ds, amountWei, perTx, daily) ==
  IF amountWei > perTx
    THEN [kind |-> "check", allowed |-> FALSE, reason |-> "exceeds per-tx limit",
          currentDailySpend |-> ds,
          remainingDaily |-> IF daily > ds THEN daily - ds ELSE 0]
    ELSE IF ds + amountWei > daily
      THEN [kind |-> "check", allowed |-> FALSE,
            reason |-> "would exceed daily limit",
            currentDailySpend |-> ds,
            remainingDaily |-> IF daily > ds THEN daily - ds ELSE 0]
      ELSE [kind |-> "check", allowed |-> TRUE, reason |-> "none",
            currentDailySpend |-> ds,
            remainingDaily |-> daily - (ds + amountWei)]

\* Variant: an accepted check commits the amount to the counter at once.
SpendAfterCheck_Commit(ds, res, amountWei) ==
  IF res.allowed THEN ds + amountWei ELSE ds

\* check() assigns nothing to this.dailySpend after maybeResetDaily(): the
\* counter after a check that returned res for amountWei.
SpendAfterCheck(ds, res, amountWei) == ds

\* Variant: the counter is assigned (=) instead of accumulated (+=).
AddSpend_Assign(ds, amountWei) == amountWei

\* Variant: an amount already covered by the counter is not added again.
AddSpend_Once(ds, amountWei) == IF ds >= amountWei THEN ds ELSE amountWei

\* this.dailySpend += amountWei
AddSpend(ds, amountWei) == ds + amountWei

\* The value getStatus() returns for the current ledger fields.
StatusOf(ds) ==
  [kind |-> "status", dailySpend |-> ds, dailyLimit |-> maxDaily,
   perTxLimit |-> maxPerTx]

Today == GetTodayDate(now)

\* constructor: dailySpend = 0n, lastResetDate = today; nothing has happened.
LedgerStart ==
  /\ now = 0
  /\ dailySpend = 0
  /\ lastResetDate = GetTodayDate(0)
  /\ op = [name |-> "new", amount |-> 0]
  /\ ret = NoRet
  /\ spentAt = [t \in Ticks |-> 0]
  /\ nRec = 0
  /\ pending = NoPending
  /\ disciplined = TRUE
  /\ manualResetDate = 0 - 1

\* constructor: the caps are taken from the config.
LedgerInit ==
  /\ maxDaily \in Caps
  /\ maxPerTx \in Caps
  /\ LedgerStart

\* check(amountWei)
Check(a) ==
  LET r == MaybeResetDaily(dailySpend, lastResetDate, Today)
      res == LimitsCheck(r.dailySpend, a, maxPerTx, maxDaily)
  IN /\ dailySpend' = SpendAfterCheck(r.dailySpend, res, a)
     /\ lastResetDate' = r.lastResetDate
     /\ ret' = res
     /\ op' = [name |-> "check", amount |-> a]
     /\ pending' = IF res.allowed THEN [amount |-> a, date |-> Today]
                                  ELSE NoPending
     /\ UNCHANGED <<now, maxDaily, maxPerTx, spentAt, nRec, disciplined,
                    manualResetDate, clsVars, fwVars>>

\* recordSpend(amountWei)
RecordSpend(a) ==
  LET r == MaybeResetDaily(dailySpend, lastResetDate, Today)
  IN /\ nRec < MaxRecords
     /\ dailySpend' = AddSpend(r.dailySpend, a)
     /\ lastResetDate' = r.lastResetDate
     /\ ret' = NoRet
     /\ op' = [name |-> "recordSpend", amount |-> a]
     /\ spentAt' = [spentAt EXCEPT ![now] = @ + a]
     /\ nRec' = nRec + 1
     /\ disciplined' = (disciplined /\ pending = [amount |-> a, date |-> Today])
     /\ pending' = NoPending
     /\ UNCHANGED <<now, maxDaily, maxPerTx, manualResetDate, clsVars, fwVars>>

\* Variant: the counter is cleared and the reset date is left as it was.
ResetDailySpend_KeepDate ==
  /\ dailySpend' = 0
  /\ ret' = NoRet
  /\ op' = [name |-> "resetDailySpend", amount |-> 0]
  /\ manualResetDate' = Today
  /\ UNCHANGED <<now, maxDaily, maxPerTx, lastResetDate, spentAt, nRec, pending,
                 disciplined, clsVars, fwVars>>

\* resetDailySpend()
ResetDailySpend ==
  /\ dailySpend' = 0
  /\ lastResetDate' = Today
  /\ ret' = NoRet
  /\ op' = [name |-> "resetDailySpend", amount |-> 0]
  /\ manualResetDate' = Today
  /\ UNCHANGED <<now, maxDaily, maxPerTx, spentAt, nRec, pending, disciplined,
                 clsVars, fwVars>>

\* getRemainingDaily() on the ledger fields given, read at date `today`:
\* getStatus() runs maybeResetDaily() first.
RemainingDaily(ds, lrd, today) ==
  LET status == StatusOf(MaybeResetDaily(ds, lrd, today).dailySpend)
  IN status.dailyLimit - status.dailySpend

\* getStatus()
GetStatus ==
  LET r == MaybeResetDaily(dailySpend, lastResetDate, Today)
  IN /\ dailySpend' = r.dailySpend
     /\ lastResetDate' = r.lastResetDate
     /\ ret' = StatusOf(r.dailySpend)
     /\ op' = [name |-> "getStatus", amount |-> 0]
     /\ UNCHANGED <<now, maxDaily, maxPerTx, spentAt, nRec, pending, disciplined,
                    manualResetDate, clsVars, fwVars>>

\* TransactionFirewall.getStatus()
FwGetStatus ==
  LET r == MaybeResetDaily(dailySpend, lastResetDate, Today)
      spendStatus == StatusOf(r.dailySpend)
  IN /\ dailySpend' = r.dailySpend
     /\ lastResetDate' = r.lastResetDate
     /\ ret' = [kind |-> "firewall.status",
                spending |-> [dailySpend |-> spendStatus.dailySpend,
                              dailyLimit |-> spendStatus.dailyLimit,
                              perTxLimit |-> spendStatus.perTxLimit,
                              remainingDaily |-> spendStatus.dailyLimit
                                                   - spendStatus.dailySpend],
                contracts |-> [allowlistMode |-> allowlistMode,
                               allowlistSize |-> Cardinality(allowlist),
                               blocklistSize |-> Cardinality(blocklist)],
                requireSimulation |-> requireSimulation]
     /\ op' = [name |-> "firewall.getStatus", amount |-> 0]
     /\ UNCHANGED <<now, maxDaily, maxPerTx, spentAt, nRec, pending, disciplined,
                    manualResetDate, clsVars, fwVars>>

\* TransactionFirewall.getRemainingDaily()
FwGetRemainingDaily ==
  LET r == MaybeResetDaily(dailySpend, lastResetDate, Today)
  IN /\ dailySpend' = r.dailySpend
     /\ lastResetDate' = r.lastResetDate
     /\ ret' = [kind |-> "remaining",
                remainingDaily |-> RemainingDaily(dailySpend, lastResetDate, Today)]
     /\ op' = [name |-> "getRemainingDaily", amount |-> 0]
     /\ UNCHANGED <<now, maxDaily, maxPerTx, spentAt, nRec, pending, disciplined,
                    manualResetDate, clsVars, fwVars>>

\* The wall clock advances between calls.
Tick ==
  /\ now < MaxNow
  /\ now' = now + 1
  /\ op' = [name |-> "tick", amount |-> 0]
  /\ ret' = NoRet
  /\ UNCHANGED <<ledgerVars, histVars, clsVars, fwVars>>

\* --------------------------------------------------- ContractAllowlist
\* An address is the sequence of the hex digits after "0x".
ZeroAddress == <<"0", "0">>
UsdcAddress == <<"8", "3", "f", "C">>
MockAddress == <<"7", "4", "C", "c">>
MockContract == <<"1", "2">>

\* String.prototype.toLowerCase on one character.
LowerChar(ch) ==
  CASE ch = "A" -> "a" [] ch = "B" -> "b" [] ch = "C" -> "c"
    [] ch = "D" -> "d" [] ch = "E" -> "e" [] ch = "F" -> "f"
    [] ch = "G" -> "g" [] ch = "H" -> "h" [] ch = "I" -> "i"
    [] ch = "J" -> "j" [] ch = "K" -> "k" [] ch = "L" -> "l"
    [] ch = "M" -> "m" [] ch = "N" -> "n" [] ch = "O" -> "o"
    [] ch = "P" -> "p" [] ch = "Q" -> "q" [] ch = "R" -> "r"
    [] ch = "S" -> "s" [] ch = "T" -> "t" [] ch = "U" -> "u"
    [] ch = "V" -> "v" [] ch = "W" -> "w" [] ch = "X" -> "x"
    [] ch = "Y" -> "y" [] ch = "Z" -> "z"
    [] OTHER -> ch

\* addr.toLowerCase()
ToLower(addr) == [i \in DOMAIN addr |-> LowerChar(addr[i])]

\* The address strings callers and configs may use (both spellings).
Addresses ==
  {ZeroAddress, UsdcAddress, ToLower(UsdcAddress), MockAddress,
   ToLower(MockAddress), MockContract}

KNOWN_MALICIOUS_CONTRACTS == {ZeroAddress}
SAFE_SYSTEM_CONTRACTS == {UsdcAddress}

\* this.systemContracts: the safe system contracts, lower-cased.
SystemContracts == {ToLower(a) : a \in SAFE_SYSTEM_CONTRACTS}

\* constructor: this.blocklist from the built-in and the configured addresses.
NewBlocklist(blockedContracts) ==
  {ToLower(a) : a \in KNOWN_MALICIOUS_CONTRACTS \cup blockedContracts}

\* constructor: this.allowlist from the configured addresses.
NewAllowlist(allowedContracts) == {ToLower(a) : a \in allowedContracts}

\* Variant: the allowlist test is dropped, every unblocked address is allowed.
AllowlistCheck_NoAllowlist(addr, mode, allowed, blocked, allowSys) ==
  LET addrLower == ToLower(addr)
  IN IF addrLower \in blocked
       THEN [kind |-> "contract", allowed |-> FALSE, reason |-> "is blocked",
             contractAddress |-> addr, status |-> "blocked"]
     ELSE IF allowSys /\ addrLower \in SystemContracts
       THEN [kind |-> "contract", allowed |-> TRUE, reason |-> "none",
             contractAddress |-> addr, status |-> "system_safe"]
     ELSE [kind |-> "contract", allowed |-> TRUE, reason |-> "none",
           contractAddress |-> addr, status |-> "allowed"]

\* Variant: the system-contract test runs before the blocklist test.
AllowlistCheck_SystemFirst(addr, mode, allowed, blocked, allowSys) ==
  LET addrLower == ToLower(addr)
  IN IF allowSys /\ addrLower \in SystemContracts
       THEN [kind |-> "contract", allowed |-> TRUE, reason |-> "none",
             contractAddress |-> addr, status |-> "system_safe"]
     ELSE IF addrLower \in blocked
       THEN [kind |-> "contract", allowed |-> FALSE, reason |-> "is blocked",
             contractAddress |-> addr, status |-> "blocked"]
     ELSE IF mode
       THEN IF addrLower \in allowed
              THEN [kind |-> "contract", allowed |-> TRUE, reason |-> "none",
                    contractAddress |-> addr, status |-> "allowed"]
              ELSE [kind |-> "contract", allowed |-> FALSE,
                    reason |-> "is not in allowlist",
                    contractAddress |-> addr, status |-> "not_in_allowlist"]
     ELSE [kind |-> "contract", allowed |-> TRUE, reason |-> "none",
           contractAddress |-> addr, status |-> "allowed"]

\* check(contractAddress) on the classifier fields given.
AllowlistCheck(addr, mode, allowed, blocked, allowSys) ==
  LET addrLower == ToLower(addr)
  IN IF addrLower \in blocked
       THEN [kind |-> "contract", allowed |-> FALSE, reason |-> "is blocked",
             contractAddress |-> addr, status |-> "blocked"]
     ELSE IF allowSys /\ addrLower \in SystemContracts
       THEN [kind |-> "contract", allowed |-> TRUE, reason |-> "none",
             contractAddress |-> addr, status |-> "system_safe"]
     ELSE IF mode
       THEN IF addrLower \in allowed
              THEN [kind |-> "contract", allowed |-> TRUE, reason |-> "none",
                    contractAddress |-> addr, status |-> "allowed"]
              ELSE [kind |-> "contract", allowed |-> FALSE,
                    reason |-> "is not in allowlist",
                    contractAddress |-> addr, status |-> "not_in_allowlist"]
     ELSE [kind |-> "contract", allowed |-> TRUE, reason |-> "none",
           contractAddress |-> addr, status |-> "allowed"]

\* check(contractAddress) on the current classifier.
ClassifyNow(addr) ==
  AllowlistCheck(addr, allowlistMode, allowlist, blocklist, allowSystemContracts)

\* new ContractAllowlist(config): allowedContracts may be absent (hasAllowed
\* FALSE), allowSystemContracts defaults to true.
ClsInit ==
  /\ allowlistMode \in BOOLEAN
  /\ \E ac \in SUBSET Addresses :
       allowlist = IF allowlistMode THEN NewAllowlist(ac) ELSE {}
  /\ \E bc \in SUBSET Addresses : blocklist = NewBlocklist(bc)
  /\ allowSystemContracts \in BOOLEAN

\* check(contractAddress)
ClsCheck(addr) ==
  /\ op' = [name |-> "allowlist.check", addr |-> addr]
  /\ ret' = ClassifyNow(addr)
  /\ UNCHANGED <<now, ledgerVars, histVars, clsVars, fwVars>>

\* Variant: the address is added as it is spelled, without toLowerCase().
AddToBlocklist_KeepCase(addr) ==
  /\ blocklist' = blocklist \cup {addr}
  /\ op' = [name |-> "addToBlocklist", addr |-> addr]
  /\ ret' = NoRet
  /\ UNCHANGED <<now, ledgerVars, histVars, allowlistMode, allowlist,
                 allowSystemContracts, fwVars>>

\* Variant: the block set is replaced by the new address instead of growing.
AddToBlocklist_Replace(addr) ==
  /\ blocklist' = {ToLower(addr)}
  /\ op' = [name |-> "addToBlocklist", addr |-> addr]
  /\ ret' = NoRet
  /\ UNCHANGED <<now, ledgerVars, histVars, allowlistMode, allowlist,
                 allowSystemContracts, fwVars>>

\* addToBlocklist(contractAddress)
AddToBlocklist(addr) ==
  /\ blocklist' = blocklist \cup {ToLower(addr)}
  /\ op' = [name |-> "addToBlocklist", addr |-> addr]
  /\ ret' = NoRet
  /\ UNCHANGED <<now, ledgerVars, histVars, allowlistMode, allowlist,
                 allowSystemContracts, fwVars>>

\* Variant: the allow set is replaced by the new address instead of growing.
AddToAllowlist_Replace(addr) ==
  /\ allowlist' = IF allowlistMode THEN {ToLower(addr)} ELSE allowlist
  /\ op' = [name |-> "addToAllowlist", addr |-> addr]
  /\ ret' = [kind |-> "bool", value |-> allowlistMode]
  /\ UNCHANGED <<now, ledgerVars, histVars, allowlistMode, blocklist,
                 allowSystemContracts, fwVars>>

\* Variant: without an allow set, one is created and the address added.
AddToAllowlist_CreatesSet(addr) ==
  /\ allowlist' = allowlist \cup {ToLower(addr)}
  /\ allowlistMode' = TRUE
  /\ op' = [name |-> "addToAllowlist", addr |-> addr]
  /\ ret' = [kind |-> "bool", value |-> TRUE]
  /\ UNCHANGED <<now, ledgerVars, histVars, blocklist, allowSystemContracts,
                 fwVars>>

\* addToAllowlist(contractAddress)
AddToAllowlist(addr) ==
  /\ allowlist' = IF allowlistMode THEN allowlist \cup {ToLower(addr)}
                                   ELSE allowlist
  /\ op' = [name |-> "addToAllowlist", addr |-> addr]
  /\ ret' = [kind |-> "bool", value |-> allowlistMode]
  /\ UNCHANGED <<now, ledgerVars, histVars, allowlistMode, blocklist,
                 allowSystemContracts, fwVars>>

\* The classifier the ledger-only behaviours carry along, never used there.
ClsIdle ==
  /\ allowlistMode = FALSE
  /\ allowlist = {}
  /\ blocklist = NewBlocklist({})
  /\ allowSystemContracts = TRUE

\* The ledger the classifier-only behaviours carry along, never used there.
LedgerIdle ==
  /\ maxDaily = MaxCap
  /\ maxPerTx = MaxCap
  /\ LedgerStart


\* ----------------------------------------------- TransactionSimulator
\* Amounts of this part are in gwei. Program constants of the simulator:
\* the default gas price (1 gwei), the default gas of a plain transfer and of
\* a contract call, the high-gas threshold and the default retry budget.
DefaultGasPrice == 1
DefaultTransferGas == 21000
DefaultContractGas == 100000
HighGasThreshold == 500000
DefaultMaxRetries == 2

\* Scenario values: the unit the intents' values and the caps are multiples
\* of, and what the chain answers when it answers.
ValueUnit == 100000
ChainGasPrice == 2
ChainGasEstimate == 50000
\* At most MaxChecks firewall.check() calls in one behaviour.
MaxChecks == 2
\* The logical callers sharing one firewall.
Callers == {"A", "B"}

\* Calldata is the hex string the caller passes; "" stands for an intent
\* without data (undefined), which the code treats like the empty string.
NoData == ""
EmptyData == "0x"
ApproveSelector == "0x095ea7b3"
MaxWord == "ffffffffffffffffffffffffffffffffffffffffffffffffffffffffffffffff"
MaxWordUpper == "FFFFFFFFFFFFFFFFFFFFFFFFFFFFFFFFFFFFFFFFFFFFFFFFFFFFFFFFFFFFFFFF"
ZeroWord == "0000000000000000000000000000000000000000000000000000000000000000"
SpenderWord == "000000000000000000000000000000000000000000000000000000000000742d"
ApproveMaxData == ApproveSelector \o SpenderWord \o MaxWord

\* The calldata the scan is exercised with: approvals of the maximum, of
\* zero and of another amount, one whose second slot is one digit short, one
\* with bytes after the second slot, the bare selector, the selector and the
\* amount in upper-case hex, other selectors with the maximum in the second
\* slot, and data shorter than a selector.
ScanDatas ==
  {NoData, EmptyData, "0x09", "0x095ea7b", ApproveSelector,
   ApproveMaxData,
   ApproveSelector \o SpenderWord \o ZeroWord,
   ApproveSelector \o SpenderWord \o SubSeq(ZeroWord, 1, 63) \o "f",
   ApproveSelector \o SpenderWord \o SubSeq(MaxWord, 1, 63),
   ApproveMaxData \o "00",
   "0x095EA7B3" \o SpenderWord \o MaxWord,
   ApproveSelector \o SpenderWord \o MaxWordUpper,
   "0xa9059cbb" \o SpenderWord \o MaxWord,
   "0xa22cb465" \o SpenderWord \o MaxWord}

\* Every calldata string an intent of the model carries.
Calldatas == ScanDatas

NoTx == [to |-> <<>>, value |-> 0, data |-> NoData, gas |-> 0, hasFrom |-> FALSE]

\* The intents the callers submit.
TxSet ==
  {[to |-> MockAddress, value |-> v, data |-> NoData, gas |-> 0, hasFrom |-> TRUE] :
     v \in {ValueUnit, 2 * ValueUnit}}
  \cup {[to |-> ZeroAddress, value |-> ValueUnit, data |-> NoData, gas |-> 0,
         hasFrom |-> TRUE],
        [to |-> MockContract, value |-> 0, data |-> ApproveMaxData,
         gas |-> DefaultTransferGas, hasFrom |-> TRUE]}

\* What the chain collaborator answers to getGasPrice / estimateGas / call.
GasPriceResponses == {[ok |-> FALSE, value |-> 0], [ok |-> TRUE, value |-> ChainGasPrice]}
EstimateGasResponses ==
  {[ok |-> FALSE, value |-> 0], [ok |-> TRUE, value |-> ChainGasEstimate]}
SimErrors == {"insufficient funds for gas", "execution reverted", "network timeout"}
\* The return data of a client.call() that returns normally: "" stands for
\* no data at all (undefined), which the code treats like the empty string.
RevertReasonPrefix == "0x08c379a0"
PanicPrefix == "0x4e487b71"
ReturnDatas ==
  {"", "0x", "0x01", RevertReasonPrefix, RevertReasonPrefix \o "00",
   PanicPrefix \o "01", "0x08C379A0"}
CallResponses ==
  {[ok |-> TRUE, data |-> "0x01", error |-> "none"]}
  \cup {[ok |-> FALSE, data |-> "none", error |-> e] : e \in SimErrors}

\* Variant: tx.to is returned whether it is present or not.
ExtractContractAddresses_Always(t) == <<t.to>>

\* extractContractAddresses(tx)
ExtractContractAddresses(t) == IF t.to # <<>> THEN <<t.to>> ELSE <<>>

\* !tx.gas && tx.to && tx.from: the chain is asked for a gas estimate.
NeedsGasEstimate(t) == t.gas = 0 /\ t.to # <<>> /\ t.hasFrom

\* tx.data && tx.data !== '0x'
HasCalldata(t) == t.data # NoData /\ t.data # EmptyData

RECURSIVE ToLowerCase(_)
\* String.prototype.toLowerCase()
ToLowerCase(s) ==
  IF Len(s) = 0 THEN ""
  ELSE LowerChar(SubSeq(s, 1, 1)) \o ToLowerCase(SubSeq(s, 2, Len(s)))

\* String.prototype.slice(from, to) for 0 <= from <= to.
Slice(s, from, to) == SubSeq(s, from + 1, IF to > Len(s) THEN Len(s) ELSE to)

\* data.slice(0, 10).toLowerCase()
Selector(data) == ToLowerCase(Slice(data, 0, 10))

\* isHighRiskTransaction(data)
IsHighRiskTransaction(data) ==
  Selector(data) \in {"0x095ea7b3", "0xa22cb465", "0x2e1a7d4d", "0x3ccfd60b"}

\* isHighRiskTransaction of every calldata string of the model.
HighRisk == [d \in Calldatas |-> IsHighRiskTransaction(d)]

\* estimateSpend: the gas estimate once the chain has answered (or failed).
GasEstimateOf(t, resp) ==
  IF resp.ok THEN resp.value
  ELSE IF HasCalldata(t) THEN DefaultContractGas ELSE DefaultTransferGas

\* estimateSpend: value + gasPrice * gasEstimate
EstimatedSpend(t, gasPrice, gasEstimate) == t.value + gasPrice * gasEstimate

\* Variant: the calldata scan of step 4 runs along with the estimate.
SpendWarnings_WithScan(t, gasEstimate) ==
  (IF t.data # NoData /\ HighRisk[t.data]
     THEN {"Transaction contains high-risk function calls"} ELSE {})
  \cup (IF gasEstimate > HighGasThreshold THEN {"High gas estimate"} ELSE {})
  \cup (IF t.value = 0 /\ HasCalldata(t)
     THEN {"Contract interaction with no ETH value - check token approvals"}
     ELSE {})
  \cup (IF t.data # NoData /\ Selector(t.data) = ApproveSelector
     THEN {"suspicious selector"} ELSE {})

\* estimateSpend: the warnings about the transaction itself.
SpendWarnings(t, gasEstimate) ==
  (IF t.data # NoData /\ HighRisk[t.data]
     THEN {"Transaction contains high-risk function calls"} ELSE {})
  \cup (IF gasEstimate > HighGasThreshold THEN {"High gas estimate"} ELSE {})
  \cup (IF t.value = 0 /\ HasCalldata(t)
     THEN {"Contract interaction with no ETH value - check token approvals"}
     ELSE {})

\* String.prototype.includes(sub)
Includes(s, sub) ==
  \E k \in 1..(Len(s) - Len(sub) + 1) : SubSeq(s, k, k + Len(sub) - 1) = sub

\* The error messages client.call() is rejected with when simulate is called
\* on its own: the ones above, and spellings in other letter case.
DirectSimErrors ==
  SimErrors \cup {"INSUFFICIENT FUNDS", "Reverted: insufficient funds",
                  "Execution Reverted"}

\* Variant: the error text is searched as it is, without toLowerCase().
ErrorKind_CaseSensitive(msg) ==
  IF Includes(msg, "insufficient funds") THEN "insufficient funds"
  ELSE IF Includes(msg, "revert") THEN "revert"
  ELSE "other"

\* simulate, the catch block: which of its branches the message takes.
ErrorKind(msg) ==
  IF Includes(ToLowerCase(msg), "insufficient funds") THEN "insufficient funds"
  ELSE IF Includes(ToLowerCase(msg), "revert") THEN "revert"
  ELSE "other"

\* ErrorKind of every message the chain collaborator uses.
ErrorKinds == [msg \in DirectSimErrors |-> ErrorKind(msg)]

\* simulate, the catch block: the SimulationResult for the error message the
\* retry loop surfaced.
SimFailure(msg, warnings) ==
  IF ErrorKinds[msg] = "insufficient funds"
    THEN [success |-> FALSE, error |-> "Transaction would fail: insufficient funds",
          warnings |-> warnings \cup {"Check ETH balance and gas requirements"},
          hasGasUsed |-> FALSE, gasUsed |-> 0, returnData |-> "none"]
  ELSE IF ErrorKinds[msg] = "revert"
    THEN [success |-> FALSE, error |-> "Transaction would revert",
          warnings |-> warnings \cup {"Contract execution would fail"},
          hasGasUsed |-> FALSE, gasUsed |-> 0, returnData |-> "none"]
  ELSE [success |-> FALSE, error |-> "Simulation failed: " \o msg,
        warnings |-> warnings, hasGasUsed |-> FALSE, gasUsed |-> 0,
        returnData |-> "none"]

NoSim ==
  [success |-> FALSE, error |-> "not run", warnings |-> {}, hasGasUsed |-> FALSE,
   gasUsed |-> 0, returnData |-> "none"]

\* String.prototype.startsWith(prefix)
StartsWith(s, prefix) ==
  Len(s) >= Len(prefix) /\ SubSeq(s, 1, Len(prefix)) = prefix

\* analyzeReturnDataForWarnings(returnData)
AnalyzeReturnDataForWarnings(returnData) ==
  IF Len(returnData) > 2
    THEN (IF StartsWith(returnData, RevertReasonPrefix)
            THEN {"Transaction includes revert reason - check contract state"}
            ELSE {})
         \cup (IF StartsWith(returnData, PanicPrefix)
            THEN {"Transaction would trigger panic (overflow, div by zero, etc.)"}
            ELSE {})
    ELSE {}

\* simulate: if (simulationResult.data) the return data is analysed; computed
\* once for every return data the chain collaborator uses.
ReturnDataWarnings ==
  [d \in ReturnDatas |-> IF d # "" THEN AnalyzeReturnDataForWarnings(d) ELSE {}]

\* simulate: the result of a call that returned data, before any gas estimate.
SimSuccess(data) ==
  [success |-> TRUE, error |-> "none", warnings |-> ReturnDataWarnings[data],
   hasGasUsed |-> FALSE, gasUsed |-> 0, returnData |-> data]

\* Variant: the loop makes one attempt more than the budget.
SimulateWithRetryStep_OneMore(i, retries, resp) ==
  IF resp.ok THEN [kind |-> "return", error |-> "none"]
  ELSE IF i < retries THEN [kind |-> "retry", error |-> resp.error]
  ELSE [kind |-> "throw", error |-> resp.error]

\* simulateWithRetry: what the loop does when attempt i (from 0) of fn() has
\* settled with resp: return its value, sleep and try again, or throw lastError.
SimulateWithRetryStep(i, retries, resp) ==
  IF resp.ok THEN [kind |-> "return", error |-> "none"]
  ELSE IF i < retries - 1 THEN [kind |-> "retry", error |-> resp.error]
  ELSE [kind |-> "throw", error |-> resp.error]

\* Variant: simulate without its catch block, the error of the loop escapes.
SimulateStep_NoCatch(t, i, retries, resp) ==
  LET r == SimulateWithRetryStep(i, retries, resp)
  IN IF r.kind = "throw" THEN [kind |-> "throw", sim |-> NoSim, error |-> r.error]
     ELSE IF r.kind = "retry" THEN [kind |-> "retry", sim |-> NoSim, error |-> r.error]
     ELSE IF NeedsGasEstimate(t)
       THEN [kind |-> "estimateGas", sim |-> SimSuccess(resp.data), error |-> "none"]
     ELSE [kind |-> "return", sim |-> SimSuccess(resp.data), error |-> "none"]

\* simulate up to its gas estimate: the try block around simulateWithRetry
\* and the catch block that turns whatever it throws into a SimulationResult.
SimulateStep(t, i, retries, resp) ==
  LET r == SimulateWithRetryStep(i, retries, resp)
  IN IF r.kind = "throw"
       THEN [kind |-> "return", sim |-> SimFailure(r.error, {}), error |-> r.error]
     ELSE IF r.kind = "retry" THEN [kind |-> "retry", sim |-> NoSim, error |-> r.error]
     ELSE IF NeedsGasEstimate(t)
       THEN [kind |-> "estimateGas", sim |-> SimSuccess(resp.data), error |-> "none"]
     ELSE [kind |-> "return", sim |-> SimSuccess(resp.data), error |-> "none"]

\* Variant: an estimate of exactly the threshold counts as high.
SimGasWarnings_AtThreshold(resp) ==
  IF ~resp.ok THEN {"Could not estimate gas usage"}
  ELSE IF resp.value >= HighGasThreshold THEN {"High gas usage estimated"}
  ELSE {}

\* simulate: the warnings of the gas estimate that follows a successful call.
SimGasWarnings(resp) ==
  IF ~resp.ok THEN {"Could not estimate gas usage"}
  ELSE IF resp.value > HighGasThreshold THEN {"High gas usage estimated"}
  ELSE {}

\* simulate: the result once client.estimateGas() has settled with resp; sim
\* is the result of the call so far. A failed estimate leaves gasUsed absent.
SimWithGas(sim, resp) ==
  IF resp.ok
    THEN [sim EXCEPT !.warnings = @ \cup SimGasWarnings(resp),
                     !.hasGasUsed = TRUE, !.gasUsed = resp.value]
    ELSE [sim EXCEPT !.warnings = @ \cup SimGasWarnings(resp)]

\* constructor: this.maxRetries = config.maxRetries || 2 (n = 0 stands for a
\* config without maxRetries as well as for maxRetries: 0).
NewMaxRetries(n) == IF n = 0 THEN DefaultMaxRetries ELSE n

\* ------------------------------------------------ TransactionFirewall
\* checkCalldata(data)
CheckCalldata(data) ==
  (IF Selector(data) \in {"0x095ea7b3", "0xa22cb465", "0x42842e0e", "0x23b872dd"}
     THEN {"suspicious selector"} ELSE {})
  \cup (IF /\ Selector(data) = "0x095ea7b3"
            /\ Len(data) >= 138
            /\ Slice(data, 74, 138) = MaxWord
     THEN {"UNLIMITED APPROVAL detected"} ELSE {})

\* checkCalldata of every calldata string of the model.
CalldataWarnings == [d \in Calldatas |-> CheckCalldata(d)]

\* Variant: step 1 is skipped, no destination is classified.
ContractChecks_Skipped(t) == <<>>

\* checkAll(extractContractAddresses(tx)) on the current classifier.
ContractChecks(t) ==
  LET addrs == ExtractContractAddresses(t)
  IN [k \in DOMAIN addrs |-> ClassifyNow(addrs[k])]

\* contractChecks of the running check(t): computed by step 1, kept in a
\* local until the decision is returned.
ChecksOf(c, t) == IF cs[c].pc = "idle" THEN ContractChecks(t) ELSE cs[c].checks

NoResult ==
  [kind |-> "none", allowed |-> FALSE, reason |-> "none", stage |-> "none",
   warnings |-> {}, hasSim |-> FALSE, sim |-> NoSim, hasEst |-> FALSE,
   estimatedSpend |-> 0, contractsChecked |-> <<>>]

\* The entry x is in the log.
InLog(log, x) == \E k \in DOMAIN log : log[k] = x

\* The log with the entry x noted, once.
Note(log, x) == IF InLog(log, x) THEN log ELSE Append(log, x)

\* The calls made on the chain collaborator (this.client).
RpcCalls == {"call", "estimateGas", "getGasPrice"}

\* The places where a call awaits a promise of the chain collaborator.
AwaitingChain ==
  {"gasPrice", "estimateGas", "simCall", "simEstimateGas", "simulate.call",
   "simulate.estimateGas", "estimate.gasPrice", "estimate.estimateGas"}

\* A caller that is in no call. log lists, in the order of their first
\* occurrence, the stages the running call has entered and the chain calls
\* it has issued; i is the loop counter of simulateWithRetry; lastError is
\* history kept for simulate() called on its own, the error of its latest
\* failed attempt, and lastCall whether its latest attempt returned ("ok") or
\* was rejected ("failed"); sim is the local result of simulate while its gas
\* estimate is awaited.
IdleCaller ==
  [pc |-> "idle", tx |-> NoTx, gasPrice |-> 0, est |-> 0, hasEst |-> FALSE,
   warnings |-> {}, i |-> 0, log |-> <<>>, lastError |-> "none",
   lastCall |-> "none", sim |-> NoSim, checks |-> <<>>]

NoAccepted == [date |-> 0 - 1, sum |-> 0]

\* No call is running on the firewall or the simulator.
FwStart ==
  /\ cs = [c \in Callers |-> IdleCaller]
  /\ result = [c \in Callers |-> NoResult]
  /\ nChk = 0
  /\ acceptedSum = NoAccepted

\* new TransactionFirewall(config): the simulator gets no maxRetries and the
\* classifier no allowSystemContracts, so both take their defaults.
FwConfigInit ==
  /\ requireSimulation \in BOOLEAN
  /\ hasPayer \in BOOLEAN
  /\ maxRetries = NewMaxRetries(0)
  /\ chainAnswers = TRUE
  /\ dryRun = FALSE
  /\ FwStart

\* The firewall the ledger-only and classifier-only behaviours carry along.
FwIdle ==
  /\ FwConfigInit
  /\ requireSimulation = FALSE
  /\ hasPayer = FALSE

\* The promise of check() is rejected with the error msg.
Thrown(msg) ==
  [kind |-> "thrown", allowed |-> FALSE, reason |-> msg, stage |-> "none",
   warnings |-> {}, hasSim |-> FALSE, sim |-> NoSim, hasEst |-> FALSE,
   estimatedSpend |-> 0, contractsChecked |-> <<>>]

\* The caller's check(t) returns the rejection r.
Reject(c, t, r, log) ==
  /\ result' = [result EXCEPT ![c] = r]
  /\ cs' = [cs EXCEPT ![c] = [IdleCaller EXCEPT !.pc = "done", !.tx = t,
                                               !.log = log]]
  /\ UNCHANGED acceptedSum

\* Variant: the accepted decision carries the calldata warnings only.
Accept_NoWarnings(c, t, warnings, hasEst, est, hasSim, sim, log) ==
  LET w == IF t.data # NoData THEN CalldataWarnings[t.data] ELSE {}
  IN /\ result' = [result EXCEPT ![c] =
          [kind |-> "firewall", allowed |-> TRUE, reason |-> "none",
           stage |-> "accepted", warnings |-> w, hasSim |-> hasSim, sim |-> sim,
           hasEst |-> hasEst, estimatedSpend |-> est, contractsChecked |-> ChecksOf(c, t)]]
     /\ cs' = [cs EXCEPT ![c] = [IdleCaller EXCEPT !.pc = "done", !.tx = t,
                                                  !.log = log]]
     /\ acceptedSum' =
          IF ~hasEst THEN acceptedSum
          ELSE IF acceptedSum.date = Today
            THEN [date |-> Today, sum |-> acceptedSum.sum + est]
            ELSE [date |-> Today, sum |-> est]

\* Variant: a finding of the calldata scan rejects the check.
Accept_ScanRejects(c, t, warnings, hasEst, est, hasSim, sim, log) ==
  LET scan == IF t.data # NoData THEN CalldataWarnings[t.data] ELSE {}
  IN IF scan # {}
       THEN Reject(c, t, [kind |-> "firewall", allowed |-> FALSE,
                          reason |-> "suspicious calldata", stage |-> "calldata",
                          warnings |-> warnings \cup scan, hasSim |-> hasSim,
                          sim |-> sim, hasEst |-> hasEst,
                          estimatedSpend |-> est, contractsChecked |-> ChecksOf(c, t)], log)
       ELSE /\ result' = [result EXCEPT ![c] =
                 [kind |-> "firewall", allowed |-> TRUE, reason |-> "none",
                  stage |-> "accepted", warnings |-> warnings, hasSim |-> hasSim,
                  sim |-> sim, hasEst |-> hasEst, estimatedSpend |-> est, contractsChecked |-> ChecksOf(c, t)]]
            /\ cs' = [cs EXCEPT ![c] = [IdleCaller EXCEPT !.pc = "done", !.tx = t,
                                                         !.log = log]]
            /\ acceptedSum' =
                 IF ~hasEst THEN acceptedSum
                 ELSE IF acceptedSum.date = Today
                   THEN [date |-> Today, sum |-> acceptedSum.sum + est]
                   ELSE [date |-> Today, sum |-> est]

\* Step 4 and the final return of check(): the calldata warnings are added.
Accept(c, t, warnings, hasEst, est, hasSim, sim, log) ==
  LET w == warnings \cup (IF t.data # NoData THEN CalldataWarnings[t.data] ELSE {})
  IN /\ result' = [result EXCEPT ![c] =
          [kind |-> "firewall", allowed |-> TRUE, reason |-> "none",
           stage |-> "accepted", warnings |-> w, hasSim |-> hasSim, sim |-> sim,
           hasEst |-> hasEst, estimatedSpend |-> est, contractsChecked |-> ChecksOf(c, t)]]
     /\ cs' = [cs EXCEPT ![c] = [IdleCaller EXCEPT !.pc = "done", !.tx = t,
                                                  !.log = log]]
     /\ acceptedSum' =
          IF ~hasEst THEN acceptedSum
          ELSE IF acceptedSum.date = Today
            THEN [date |-> Today, sum |-> acceptedSum.sum + est]
            ELSE [date |-> Today, sum |-> est]

\* Variant: step 3 is skipped although simulation is required.
AfterLimits_NoSimulation(c, t, warnings, hasEst, est, log) ==
  Accept(c, t, warnings, hasEst, est, FALSE, NoSim, log)

\* Step 3 is entered (await this.simulate(tx), which issues the first
\* client.call()) or, without simulation, the check goes on to step 4.
AfterLimits(c, t, warnings, hasEst, est, log) ==
  IF requireSimulation
    THEN /\ cs' = [cs EXCEPT ![c] = [IdleCaller EXCEPT !.pc = "simCall", !.tx = t,
                                     !.checks = ChecksOf(c, t),
                                     !.est = est, !.hasEst = hasEst,
                                     !.warnings = warnings,
                                     !.log = log \o <<"simulate", "call">>]]
         /\ UNCHANGED <<result, acceptedSum>>
    ELSE Accept(c, t, warnings, hasEst, est, FALSE, NoSim, log)

\* A promise of the chain collaborator that resolves with something that is
\* not a bigint (undefined, a number): arithmetic with it throws a TypeError.
NotABigint == 0 - 1
IsBigint(v) == v >= 0

\* estimateSpend, the outer catch: the fixed fallback of 0.1 ETH, in gwei.
FallbackSpend == 100000000

\* Variant: estimateSpend without its outer catch, the TypeError escapes.
EstimateSpendReturn_NoCatch(t, gasPrice, gasEstimate, warnings) ==
  IF IsBigint(gasPrice) /\ IsBigint(gasEstimate)
    THEN [kind |-> "estimate",
          estimatedSpend |-> EstimatedSpend(t, gasPrice, gasEstimate),
          gasPrice |-> gasPrice,
          warnings |-> warnings \cup SpendWarnings(t, gasEstimate)]
    ELSE [kind |-> "thrown", estimatedSpend |-> 0, gasPrice |-> 0,
          warnings |-> {}]

\* estimateSpend from the gas cost to its return: the sum and the warnings
\* about the transaction, or, when a statement of the try block throws, the
\* outer catch with its fallback.
EstimateSpendReturn(t, gasPrice, gasEstimate, warnings) ==
  IF IsBigint(gasPrice) /\ IsBigint(gasEstimate)
    THEN [kind |-> "estimate",
          estimatedSpend |-> EstimatedSpend(t, gasPrice, gasEstimate),
          gasPrice |-> gasPrice,
          warnings |-> warnings \cup SpendWarnings(t, gasEstimate)]
    ELSE [kind |-> "estimate", estimatedSpend |-> FallbackSpend,
          gasPrice |-> DefaultGasPrice,
          warnings |-> warnings \cup {"Spend estimation failed"}]

\* The end of estimateSpend and the limits.check that follows it in step 2.
LimitStage(c, t, gasPrice, gasEstimate, warnings) ==
  LET spendEstimate == EstimateSpendReturn(t, gasPrice, gasEstimate, warnings)
      est == spendEstimate.estimatedSpend
      w == spendEstimate.warnings
      r == MaybeResetDaily(dailySpend, lastResetDate, Today)
      res == LimitsCheck(r.dailySpend, est, maxPerTx, maxDaily)
      log == Append(cs[c].log, "limits.check")
  IN /\ dailySpend' = SpendAfterCheck(r.dailySpend, res, est)
     /\ lastResetDate' = r.lastResetDate
     /\ IF ~res.allowed
          THEN Reject(c, t, [kind |-> "firewall", allowed |-> FALSE,
                          reason |-> res.reason, stage |-> "limits",
                          warnings |-> w, hasSim |-> FALSE, sim |-> NoSim,
                          hasEst |-> TRUE, estimatedSpend |-> est, contractsChecked |-> ChecksOf(c, t)], log)
          ELSE AfterLimits(c, t, w, TRUE, est, log)

\* check(tx) up to its first await: step 1, then either estimateSpend up to
\* its client.getGasPrice() or, without a payer, the warning that replaces
\* step 2.
FwBegin(c, t) ==
  /\ cs[c].pc = "idle"
  /\ nChk < MaxChecks
  /\ nChk' = nChk + 1
  /\ op' = [name |-> "firewall.check", caller |-> c]
  /\ ret' = NoRet
  /\ LET checks == ContractChecks(t)
         bad == {k \in DOMAIN checks : ~checks[k].allowed}
     IN IF bad # {}
          THEN LET k == CHOOSE x \in bad : \A y \in bad : x <= y
               IN Reject(c, t, [kind |-> "firewall", allowed |-> FALSE,
                             reason |-> checks[k].reason, stage |-> "contracts",
                             warnings |-> {}, hasSim |-> FALSE, sim |-> NoSim,
                             hasEst |-> FALSE, estimatedSpend |-> 0, contractsChecked |-> checks],
                    <<>>)
        ELSE IF hasPayer
          THEN /\ cs' = [cs EXCEPT ![c] =
                           [IdleCaller EXCEPT !.pc = "gasPrice", !.tx = t,
                              !.checks = checks,
                              !.log = <<"estimateSpend", "getGasPrice">>]]
               /\ UNCHANGED <<result, acceptedSum>>
        ELSE AfterLimits(c, t,
               {"No payer address provided - spending limits not enforced"},
               FALSE, 0, <<>>)
  /\ UNCHANGED <<now, ledgerVars, histVars, clsVars, cfgVars>>

\* estimateSpend: client.getGasPrice() has settled with one of responses.
FwGasPriceOf(c, responses) ==
  /\ cs[c].pc = "gasPrice"
  /\ chainAnswers
  /\ op' = [name |-> "firewall.check", caller |-> c]
  /\ ret' = NoRet
  /\ \E resp \in responses :
       LET t == cs[c].tx
           price == IF resp.ok THEN resp.value ELSE DefaultGasPrice
           w == cs[c].warnings \cup
                (IF resp.ok THEN {}
                 ELSE {"Could not fetch gas price, using default 1 gwei"})
       IN IF NeedsGasEstimate(t)
            THEN /\ cs' = [cs EXCEPT ![c].pc = "estimateGas",
                                     ![c].gasPrice = price, ![c].warnings = w,
                                     ![c].log = Note(@, "estimateGas")]
                 /\ UNCHANGED <<result, acceptedSum, dailySpend, lastResetDate>>
            ELSE LimitStage(c, t, price,
                            IF t.gas # 0 THEN t.gas ELSE DefaultTransferGas, w)
  /\ UNCHANGED <<now, maxDaily, maxPerTx, histVars, clsVars, cfgVars, nChk>>

\* The same with the answers of the chain used throughout.
FwGasPrice(c) == FwGasPriceOf(c, GasPriceResponses)

\* estimateSpend: client.estimateGas() has settled.
FwEstimateGas(c) ==
  /\ cs[c].pc = "estimateGas"
  /\ chainAnswers
  /\ op' = [name |-> "firewall.check", caller |-> c]
  /\ ret' = NoRet
  /\ \E resp \in EstimateGasResponses :
       LET t == cs[c].tx
           w == cs[c].warnings \cup
                (IF resp.ok THEN {} ELSE {"Could not estimate gas, using default"})
       IN LimitStage(c, t, cs[c].gasPrice, GasEstimateOf(t, resp), w)
  /\ UNCHANGED <<now, maxDaily, maxPerTx, histVars, clsVars, cfgVars, nChk>>

\* simulate inside check(): one attempt of client.call() inside
\* simulateWithRetry has settled; a failed attempt that is not the last
\* sleeps and issues the call again. check() has no try/catch of its own.
FwSimCall(c) ==
  /\ cs[c].pc = "simCall"
  /\ chainAnswers
  /\ op' = [name |-> "firewall.check", caller |-> c]
  /\ ret' = NoRet
  /\ \E resp \in CallResponses :
       LET t == cs[c].tx
           o == SimulateStep(t, cs[c].i, maxRetries, resp)
       IN CASE o.kind = "retry" ->
                 /\ cs' = [cs EXCEPT ![c].i = @ + 1, ![c].log = Note(@, "call")]
                 /\ UNCHANGED <<result, acceptedSum>>
            [] o.kind = "estimateGas" ->
                 /\ cs' = [cs EXCEPT ![c].pc = "simEstimateGas",
                                     ![c].sim = o.sim,
                                     ![c].log = Note(@, "estimateGas")]
                 /\ UNCHANGED <<result, acceptedSum>>
            [] o.kind = "return" ->
                 IF o.sim.success
                   THEN Accept(c, t, cs[c].warnings \cup o.sim.warnings,
                               cs[c].hasEst, cs[c].est, TRUE, o.sim, cs[c].log)
                   ELSE Reject(c, t, [kind |-> "firewall", allowed |-> FALSE,
                                   reason |-> "Simulation failed: " \o o.sim.error,
                                   stage |-> "simulation",
                                   warnings |-> cs[c].warnings \cup o.sim.warnings,
                                   hasSim |-> TRUE, sim |-> o.sim,
                                   hasEst |-> cs[c].hasEst,
                                   estimatedSpend |-> cs[c].est, contractsChecked |-> ChecksOf(c, t)],
                            cs[c].log)
            [] o.kind = "throw" -> Reject(c, t, Thrown(o.error), cs[c].log)
  /\ UNCHANGED <<now, ledgerVars, histVars, clsVars, cfgVars, nChk>>

\* simulate inside check(): client.estimateGas() after a successful call has
\* settled.
FwSimEstimateGas(c) ==
  /\ cs[c].pc = "simEstimateGas"
  /\ chainAnswers
  /\ op' = [name |-> "firewall.check", caller |-> c]
  /\ ret' = NoRet
  /\ \E resp \in EstimateGasResponses :
       LET sim == SimWithGas(cs[c].sim, resp)
       IN Accept(c, cs[c].tx, cs[c].warnings \cup sim.warnings, cs[c].hasEst,
                 cs[c].est, TRUE, sim, cs[c].log)
  /\ UNCHANGED <<now, ledgerVars, histVars, clsVars, cfgVars, nChk>>

\* The caller of an accepted check has broadcast the transaction and reports
\* the spend the check accepted: firewall.recordSpend(a).
FwRecordSpend(c) ==
  LET a == IF result[c].hasEst THEN result[c].estimatedSpend ELSE cs[c].tx.value
      r == MaybeResetDaily(dailySpend, lastResetDate, Today)
  IN /\ cs[c].pc = "done"
     /\ result[c].allowed
     /\ nRec < MaxRecords
     /\ dailySpend' = AddSpend(r.dailySpend, a)
     /\ lastResetDate' = r.lastResetDate
     /\ op' = [name |-> "recordSpend", amount |-> a]
     /\ ret' = NoRet
     /\ spentAt' = [spentAt EXCEPT ![now] = @ + a]
     /\ nRec' = nRec + 1
     /\ cs' = [cs EXCEPT ![c] = IdleCaller]
     /\ result' = [result EXCEPT ![c] = NoResult]
     /\ acceptedSum' = NoAccepted
     /\ UNCHANGED <<now, maxDaily, maxPerTx, pending, disciplined, manualResetDate,
                    clsVars, cfgVars, nChk>>

\* blockContract(contractAddress)
FwBlockContract(addr) == AddToBlocklist(addr)

\* The caller drops the decision without broadcasting anything.
FwForget(c) ==
  /\ cs[c].pc = "done"
  /\ cs' = [cs EXCEPT ![c] = IdleCaller]
  /\ result' = [result EXCEPT ![c] = NoResult]
  /\ op' = [name |-> "forget", caller |-> c]
  /\ ret' = NoRet
  /\ UNCHANGED <<now, ledgerVars, histVars, clsVars, cfgVars, nChk, acceptedSum>>

\* ---------------------------------- TransactionSimulator called directly
\* The retry budgets a simulator is configured with: 0 (none given) up to
\* MaxRetryConfig.
MaxRetryConfig == 3
RetryConfigs == 0..MaxRetryConfig

DirectCallResponses ==
  {[ok |-> TRUE, data |-> d, error |-> "none"] : d \in ReturnDatas}
  \cup {[ok |-> FALSE, data |-> "none", error |-> e] : e \in DirectSimErrors}

\* What client.estimateGas() answers then: also an estimate of exactly the
\* high-gas threshold and one above it.
DirectEstimateGasResponses ==
  EstimateGasResponses
  \cup {[ok |-> TRUE, value |-> v] : v \in {HighGasThreshold, HighGasThreshold + 1}}

\* The value simulate(tx) returns to its caller.
SimulationRet(sim) ==
  [kind |-> "simulation", success |-> sim.success, error |-> sim.error,
   warnings |-> sim.warnings, hasGasUsed |-> sim.hasGasUsed,
   gasUsed |-> sim.gasUsed, returnData |-> sim.returnData]

\* new TransactionSimulator({maxRetries}) with a chain that answers.
SimConfigInit ==
  /\ requireSimulation = FALSE
  /\ hasPayer = FALSE
  /\ maxRetries \in {NewMaxRetries(n) : n \in RetryConfigs}
  /\ chainAnswers = TRUE
  /\ dryRun = FALSE
  /\ FwStart

\* simulate(tx): simulateWithRetry issues the first client.call().
SimulateBegin(c, t) ==
  /\ cs[c].pc = "idle"
  /\ cs' = [cs EXCEPT ![c] = [IdleCaller EXCEPT !.pc = "simulate.call", !.tx = t,
                                               !.log = <<"simulate", "call">>]]
  /\ op' = [name |-> "simulate", caller |-> c]
  /\ ret' = NoRet
  /\ UNCHANGED <<now, ledgerVars, histVars, clsVars, cfgVars, result, nChk,
                 acceptedSum>>

\* simulate(tx): one attempt of client.call() has settled.
SimulateCall(c) ==
  /\ cs[c].pc = "simulate.call"
  /\ chainAnswers
  /\ op' = [name |-> "simulate", caller |-> c]
  /\ \E resp \in DirectCallResponses :
       LET o == SimulateStep(cs[c].tx, cs[c].i, maxRetries, resp)
       IN CASE o.kind = "retry" ->
                 /\ cs' = [cs EXCEPT ![c].i = @ + 1, ![c].lastError = o.error,
                                     ![c].lastCall = "failed",
                                     ![c].log = Note(@, "call")]
                 /\ ret' = NoRet
            [] o.kind = "estimateGas" ->
                 /\ cs' = [cs EXCEPT ![c].pc = "simulate.estimateGas",
                                     ![c].sim = o.sim, ![c].lastCall = "ok",
                                     ![c].log = Note(@, "estimateGas")]
                 /\ ret' = NoRet
            [] o.kind = "return" ->
                 /\ cs' = [cs EXCEPT ![c].pc = "done",
                                     ![c].lastCall =
                                        IF resp.ok THEN "ok" ELSE "failed",
                                     ![c].lastError =
                                        IF resp.ok THEN @ ELSE o.error]
                 /\ ret' = SimulationRet(o.sim)
            [] o.kind = "throw" ->
                 /\ cs' = [cs EXCEPT ![c].pc = "done", ![c].lastError = o.error,
                                     ![c].lastCall = "failed"]
                 /\ ret' = [kind |-> "thrown", success |-> FALSE,
                            error |-> o.error, warnings |-> {}]
  /\ UNCHANGED <<now, ledgerVars, histVars, clsVars, cfgVars, result, nChk,
                 acceptedSum>>

\* simulate(tx): client.estimateGas() after a successful call has settled.
SimulateEstimateGas(c) ==
  /\ cs[c].pc = "simulate.estimateGas"
  /\ chainAnswers
  /\ op' = [name |-> "simulate", caller |-> c]
  /\ \E resp \in DirectEstimateGasResponses :
       ret' = SimulationRet(SimWithGas(cs[c].sim, resp))
  /\ cs' = [cs EXCEPT ![c].pc = "done", ![c].sim = NoSim]
  /\ UNCHANGED <<now, ledgerVars, histVars, clsVars, cfgVars, result, nChk,
                 acceptedSum>>

\* -------------------------------------------- estimateSpend called directly
\* The intents estimateSpend is called with: the ones above, and contract
\* calls and transfers without gas, with and without a sender, and one whose
\* calldata is the empty '0x'.
EstTxSet ==
  TxSet
  \cup {[to |-> MockContract, value |-> v, data |-> ApproveMaxData, gas |-> 0,
          hasFrom |-> f] : v \in {0, ValueUnit}, f \in BOOLEAN}
  \cup {[to |-> MockAddress, value |-> ValueUnit, data |-> d, gas |-> 0,
          hasFrom |-> FALSE] : d \in {NoData, EmptyData}}

\* What client.getGasPrice() and client.estimateGas() settle with then.
DirectGasPriceResponses ==
  GasPriceResponses \cup {[ok |-> TRUE, value |-> NotABigint]}
EstGasResponses ==
  EstimateGasResponses \cup {[ok |-> TRUE, value |-> NotABigint]}

\* The chain call has not been made.
NotAsked == [ok |-> FALSE, value |-> 0 - 2]

\* estimateSpend(tx, payer) up to its client.getGasPrice(). op keeps what the
\* chain answered to this call.
EstimateSpendBegin(c, t) ==
  /\ cs[c].pc = "idle"
  /\ cs' = [cs EXCEPT ![c] = [IdleCaller EXCEPT !.pc = "estimate.gasPrice",
                                 !.tx = t,
                                 !.log = <<"estimateSpend", "getGasPrice">>]]
  /\ op' = [name |-> "estimateSpend", caller |-> c, price |-> NotAsked,
            gas |-> NotAsked]
  /\ ret' = NoRet
  /\ UNCHANGED <<now, ledgerVars, histVars, clsVars, cfgVars, result, nChk,
                 acceptedSum>>

\* estimateSpend(tx, payer): client.getGasPrice() has settled.
EstimateSpendGasPrice(c) ==
  /\ cs[c].pc = "estimate.gasPrice"
  /\ chainAnswers
  /\ \E resp \in DirectGasPriceResponses :
       LET t == cs[c].tx
           price == IF resp.ok THEN resp.value ELSE DefaultGasPrice
           w == IF resp.ok THEN {}
                ELSE {"Could not fetch gas price, using default 1 gwei"}
       IN /\ op' = [op EXCEPT !.price = resp]
          /\ IF NeedsGasEstimate(t)
               THEN /\ cs' = [cs EXCEPT ![c].pc = "estimate.estimateGas",
                                        ![c].gasPrice = price, ![c].warnings = w,
                                        ![c].log = Note(@, "estimateGas")]
                    /\ ret' = NoRet
               ELSE /\ cs' = [cs EXCEPT ![c].pc = "done"]
                    /\ ret' = EstimateSpendReturn(t, price,
                                 IF t.gas # 0 THEN t.gas ELSE DefaultTransferGas, w)
  /\ UNCHANGED <<now, ledgerVars, histVars, clsVars, cfgVars, result, nChk,
                 acceptedSum>>

\* estimateSpend(tx, payer): client.estimateGas() has settled.
EstimateSpendEstimateGas(c) ==
  /\ cs[c].pc = "estimate.estimateGas"
  /\ chainAnswers
  /\ \E resp \in EstGasResponses :
       LET t == cs[c].tx
           w == cs[c].warnings \cup
                (IF resp.ok THEN {} ELSE {"Could not estimate gas, using default"})
       IN /\ op' = [op EXCEPT !.gas = resp]
          /\ ret' = EstimateSpendReturn(t, cs[c].gasPrice, GasEstimateOf(t, resp), w)
  /\ cs' = [cs EXCEPT ![c].pc = "done", ![c].gasPrice = 0, ![c].warnings = {}]
  /\ UNCHANGED <<now, ledgerVars, histVars, clsVars, cfgVars, result, nChk,
                 acceptedSum>>

\* ------------------------------------------------------ GuardedEVMAgent
\* What guard.checkTransaction(tx, action) resolves with; the wrapper reads
\* allowed and reason only.
GuardResults ==
  {[allowed |-> TRUE, reason |-> "none"],
   [allowed |-> FALSE, reason |-> "exceeds per-tx limit"],
   [allowed |-> FALSE, reason |-> "is blocked"]}

\* The guard has not been asked.
NoGuard == [allowed |-> FALSE, reason |-> "not asked"]

\* transfer(to, ethAmount): the intent it builds, with account and no from.
TransferTxs ==
  {[to |-> MockAddress, value |-> v, data |-> NoData, gas |-> 0, hasFrom |-> FALSE] :
     v \in {ValueUnit, 2 * ValueUnit}}

\* callContract(contractAddress, data, ethValue): the intent it builds.
CallContractTxs ==
  {[to |-> MockContract, value |-> v, data |-> ApproveMaxData, gas |-> 0,
    hasFrom |-> FALSE] : v \in {0, ValueUnit}}

\* approveToken(tokenAddress, spenderAddress, amount): the intent it builds,
\* without a value.
ApproveTokenTxs ==
  {[to |-> MockContract, value |-> 0, data |-> d, gas |-> 0, hasFrom |-> FALSE] :
     d \in {ApproveMaxData, ApproveSelector \o SpenderWord \o ZeroWord}}

\* transferToken(tokenAddress, to, amount): the intent it builds, without a
\* value.
TransferTokenTxs ==
  {[to |-> MockContract, value |-> 0, data |-> "0xa9059cbb" \o SpenderWord \o MaxWord,
    gas |-> 0, hasFrom |-> FALSE]}

\* What walletClient.sendTransaction() settles with.
SendResponses ==
  {[ok |-> TRUE, error |-> "none"], [ok |-> FALSE, error |-> "Insufficient funds"]}

\* A wrapper over a guard, with dryRun on or off.
WrapperConfigInit ==
  /\ requireSimulation = FALSE
  /\ hasPayer = FALSE
  /\ maxRetries = NewMaxRetries(0)
  /\ chainAnswers = TRUE
  /\ dryRun \in BOOLEAN
  /\ FwStart

\* execute, the catch block: fn() threw an error with the message msg; the
\* failure is logged and returned, without a blocked field.
ExecuteCatch(c, log, msg) ==
  /\ cs' = [cs EXCEPT ![c].pc = "done", ![c].log = Append(log, "audit.log")]
  /\ ret' = [kind |-> "action", success |-> FALSE, blocked |-> FALSE,
             reason |-> msg, warnings |-> {}, hasAuditId |-> TRUE]

\* The wrapper method action(...) up to its await of guardTransaction; no
\* customCheck is passed to execute. op keeps what the guard answered.
WrapBegin(c, action, t) ==
  /\ cs[c].pc = "idle"
  /\ nRec < MaxRecords
  /\ cs' = [cs EXCEPT ![c] = [IdleCaller EXCEPT !.pc = "wrap.guard", !.tx = t,
                                               !.log = <<"guardTransaction">>]]
  /\ op' = [name |-> action, caller |-> c, guard |-> NoGuard]
  /\ ret' = NoRet
  /\ UNCHANGED <<now, ledgerVars, histVars, clsVars, cfgVars, result, nChk,
                 acceptedSum>>

\* transfer(to, ethAmount)
WrapTransfer(c, t) == WrapBegin(c, "transfer", t)

\* callContract(contractAddress, data, ethValue)
WrapCallContract(c, t) == WrapBegin(c, "contract_call", t)

\* approveToken(tokenAddress, spenderAddress, amount)
WrapApproveToken(c, t) == WrapBegin(c, "token_approve", t)

\* transferToken(tokenAddress, to, amount)
WrapTransferToken(c, t) == WrapBegin(c, "token_transfer", t)

\* guardTransaction has resolved: a rejection throws unless dryRun is on,
\* otherwise publicClient.estimateGas(tx) is called.
WrapGuard(c) ==
  /\ cs[c].pc = "wrap.guard"
  /\ \E g \in GuardResults :
       /\ op' = [op EXCEPT !.guard = g]
       /\ IF ~g.allowed /\ ~dryRun
            THEN ExecuteCatch(c, cs[c].log, g.reason)
            ELSE /\ cs' = [cs EXCEPT ![c].pc = "wrap.estimateGas",
                                     ![c].log = Append(@, "estimateGas")]
                 /\ ret' = NoRet
  /\ UNCHANGED <<now, ledgerVars, histVars, clsVars, cfgVars, result, nChk,
                 acceptedSum>>

\* publicClient.estimateGas(tx) has settled: tx.gas is set and
\* walletClient.sendTransaction(tx) is called, or the rejection is caught.
WrapEstimateGas(c) ==
  /\ cs[c].pc = "wrap.estimateGas"
  /\ UNCHANGED op
  /\ \E resp \in EstimateGasResponses :
       IF resp.ok
         THEN /\ cs' = [cs EXCEPT ![c].pc = "wrap.send", ![c].tx.gas = resp.value,
                                  ![c].log = Append(@, "sendTransaction")]
              /\ ret' = NoRet
         ELSE ExecuteCatch(c, cs[c].log, "Gas estimation failed")
  /\ UNCHANGED <<now, ledgerVars, histVars, clsVars, cfgVars, result, nChk,
                 acceptedSum>>

\* Variant: the spend is recorded when sendTransaction is called, whatever
\* it settles with.
RecordsAfterSend_Always(resp, action, value) ==
  action = "transfer" \/ (action = "contract_call" /\ value > 0)

\* Whether the method calls firewall.recordSpend once sendTransaction has
\* settled with resp: transfer always does, callContract for a positive
\* value, approveToken and transferToken never; a rejection skips it.
RecordsAfterSend(resp, action, value) ==
  resp.ok /\ (action = "transfer" \/ (action = "contract_call" /\ value > 0))

\* Variant: the gas cost is recorded along with the value.
RecordedAmount_WithGas(t) == t.value + ChainGasPrice * t.gas

\* The amount handed to firewall.recordSpend: the value of the intent.
RecordedAmount(t) == t.value

\* walletClient.sendTransaction(tx) has settled: after a broadcast the value
\* is recorded and the hash returned; a rejection is caught.
WrapSend(c) ==
  /\ cs[c].pc = "wrap.send"
  /\ UNCHANGED op
  /\ \E resp \in SendResponses :
       LET records == RecordsAfterSend(resp, op.name, cs[c].tx.value)
           amount == RecordedAmount(cs[c].tx)
           r == MaybeResetDaily(dailySpend, lastResetDate, Today)
           log == IF records THEN Append(cs[c].log, "recordSpend") ELSE cs[c].log
       IN /\ IF records
               THEN /\ dailySpend' = AddSpend(r.dailySpend, amount)
                    /\ lastResetDate' = r.lastResetDate
                    /\ spentAt' = [spentAt EXCEPT ![now] = @ + amount]
                    /\ nRec' = nRec + 1
               ELSE UNCHANGED <<dailySpend, lastResetDate, spentAt, nRec>>
          /\ IF resp.ok
               THEN /\ cs' = [cs EXCEPT ![c].pc = "done",
                                        ![c].log = Append(log, "audit.log")]
                    /\ ret' = [kind |-> "action", success |-> TRUE,
                               blocked |-> FALSE, reason |-> "none",
                               warnings |-> {}, hasAuditId |-> TRUE]
               ELSE ExecuteCatch(c, log, resp.error)
  /\ UNCHANGED <<now, maxDaily, maxPerTx, pending, disciplined, manualResetDate,
                 clsVars, cfgVars, result, nChk, acceptedSum>>

\* The wall clock advances while the wrapper is idle or awaits a promise.
ClockAdvance ==
  /\ now < MaxNow
  /\ now' = now + 1
  /\ UNCHANGED <<ledgerVars, op, ret, histVars, clsVars, fwVars>>

\* A firewall whose chain collaborator either answers every call or is
\* silent: then no promise of a chain call ever settles.
OneConfigInit ==
  /\ requireSimulation \in BOOLEAN
  /\ hasPayer \in BOOLEAN
  /\ maxRetries = NewMaxRetries(0)
  /\ chainAnswers \in BOOLEAN
  /\ dryRun = FALSE
  /\ FwStart

\* The ledger of that firewall: each cap is one or two value units.
LedgerOneInit ==
  /\ maxDaily \in {ValueUnit, 2 * ValueUnit}
  /\ maxPerTx \in {ValueUnit, 2 * ValueUnit}
  /\ LedgerStart

\* The ledger of the firewall behaviours: both caps are 2 value units.
LedgerFwInit ==
  /\ maxDaily = 2 * ValueUnit
  /\ maxPerTx = 2 * ValueUnit
  /\ LedgerStart

\* The classifier of the firewall behaviours: default-allow mode, or
\* allow-list mode with one allowed address.
ClsFwInit ==
  /\ allowlistMode \in BOOLEAN
  /\ allowlist = IF allowlistMode THEN NewAllowlist({MockAddress}) ELSE {}
  /\ blocklist = NewBlocklist({})
  /\ allowSystemContracts = TRUE

Init == LedgerInit /\ ClsIdle /\ FwIdle

Next ==
  \/ \E a \in Amounts : Check(a)
  \/ \E a \in Amounts : RecordSpend(a)
  \/ ResetDailySpend
  \/ GetStatus
  \/ Tick

Spec == Init /\ [][Next]_vars

InitCls == LedgerIdle /\ ClsInit /\ FwIdle

NextCls ==
  \/ \E addr \in Addresses : ClsCheck(addr)
  \/ \E addr \in Addresses : AddToBlocklist(addr)
  \/ \E addr \in Addresses : AddToAllowlist(addr)

SpecCls == InitCls /\ [][NextCls]_vars

\* The caps a config may hold: negative, zero and positive ones.
ConfigCaps == (0 - 1)..MaxCap

\* new SpendingLimits(config), also through new TransactionFirewall(config):
\* both caps are assigned as the config gives them.
LedgerConfigInit ==
  /\ maxDaily \in ConfigCaps
  /\ maxPerTx \in ConfigCaps
  /\ LedgerStart

\* A ledger constructed from any config, then used.
InitConfig == LedgerConfigInit /\ ClsIdle /\ FwIdle

NextConfig ==
  \/ \E a \in Amounts : Check(a)
  \/ \E a \in Amounts : RecordSpend(a)
  \/ GetStatus

SpecConfig == InitConfig /\ [][NextConfig]_vars

\* The ledger of a firewall, written by recordSpend and read through the
\* firewall's status calls.
NextStatus ==
  \/ \E a \in Amounts : Check(a)
  \/ \E a \in Amounts : RecordSpend(a)
  \/ FwGetStatus
  \/ FwGetRemainingDaily
  \/ Tick

SpecStatus == Init /\ [][NextStatus]_vars

InitFw == LedgerFwInit /\ ClsFwInit /\ FwConfigInit

NextFw ==
  \/ \E c \in Callers : \E t \in TxSet : FwBegin(c, t)
  \/ \E c \in Callers : FwGasPrice(c)
  \/ \E c \in Callers : FwEstimateGas(c)
  \/ \E c \in Callers : FwSimCall(c)
  \/ \E c \in Callers : FwSimEstimateGas(c)
  \/ \E c \in Callers : FwRecordSpend(c)
  \/ \E c \in Callers : FwForget(c)
  \/ Tick

SpecFw == InitFw /\ [][NextFw]_vars

\* One caller of a simulator constructed on its own.
InitSim == LedgerIdle /\ ClsIdle /\ SimConfigInit

NextSim ==
  \/ \E t \in TxSet : SimulateBegin("A", t)
  \/ SimulateCall("A")
  \/ SimulateEstimateGas("A")
  \/ FwForget("A")

SpecSim == InitSim /\ [][NextSim]_vars

\* One caller of estimateSpend on a simulator constructed on its own.
NextEst ==
  \/ \E t \in EstTxSet : EstimateSpendBegin("A", t)
  \/ EstimateSpendGasPrice("A")
  \/ EstimateSpendEstimateGas("A")
  \/ FwForget("A")

SpecEst == InitSim /\ [][NextEst]_vars

\* One caller of a firewall without payer whose operator blocks contracts
\* while it runs.
InitBlock == LedgerFwInit /\ ClsFwInit /\ FwConfigInit /\ ~hasPayer

NextBlock ==
  \/ \E t \in TxSet : FwBegin("A", t)
  \/ FwSimCall("A")
  \/ FwSimEstimateGas("A")
  \/ FwForget("A")
  \/ \E addr \in Addresses : FwBlockContract(addr)

SpecBlock == InitBlock /\ [][NextBlock]_vars

\* The intents whose calldata the scan is exercised with: calls of
\* MockContract without value and without gas.
ScanTxSet ==
  {[to |-> MockContract, value |-> 0, data |-> d, gas |-> 0, hasFrom |-> TRUE] :
     d \in ScanDatas}

\* One caller of a firewall who submits contract calls with all kinds of
\* calldata.
NextScan ==
  \/ \E t \in ScanTxSet : FwBegin("A", t)
  \/ FwGasPrice("A")
  \/ FwEstimateGas("A")
  \/ FwSimCall("A")
  \/ FwSimEstimateGas("A")
  \/ FwForget("A")

SpecScan == InitFw /\ [][NextScan]_vars

\* One caller of a wrapper whose guard answers as it likes.
InitWrap == LedgerFwInit /\ ClsIdle /\ WrapperConfigInit

NextWrap ==
  \/ \E t \in TransferTxs : WrapTransfer("A", t)
  \/ \E t \in CallContractTxs : WrapCallContract("A", t)
  \/ \E t \in ApproveTokenTxs : WrapApproveToken("A", t)
  \/ \E t \in TransferTokenTxs : WrapTransferToken("A", t)
  \/ WrapGuard("A")
  \/ WrapEstimateGas("A")
  \/ WrapSend("A")
  \/ FwForget("A")
  \/ ClockAdvance

SpecWrap == InitWrap /\ [][NextWrap]_vars

\* The ledger of a firewall whose caps are above the fallback estimate.
LedgerCapInit ==
  /\ maxDaily = 4 * FallbackSpend
  /\ maxPerTx = 2 * FallbackSpend
  /\ LedgerStart

\* Transfers below, at and above those caps, without gas and with it.
CapTxSet ==
  {[to |-> MockAddress, value |-> v, data |-> NoData, gas |-> g, hasFrom |-> TRUE] :
     v \in {ValueUnit, 2 * FallbackSpend, 3 * FallbackSpend},
     g \in {0, DefaultTransferGas}}

\* One caller of a firewall with a payer whose chain collaborator may answer
\* getGasPrice with something that is not a bigint.
InitCap == LedgerCapInit /\ ClsIdle /\ FwConfigInit /\ hasPayer

NextCap ==
  \/ \E t \in CapTxSet : FwBegin("A", t)
  \/ FwGasPriceOf("A", DirectGasPriceResponses)
  \/ FwEstimateGas("A")
  \/ FwSimCall("A")
  \/ FwSimEstimateGas("A")
  \/ FwRecordSpend("A")
  \/ FwForget("A")

SpecCap == InitCap /\ [][NextCap]_vars

\* Intents without destination (contract creations), with and without
\* value and calldata, and a call of a contract for comparison.
CreateTxSet ==
  {[to |-> <<>>, value |-> v, data |-> d, gas |-> 0, hasFrom |-> TRUE] :
     v \in {0, ValueUnit}, d \in {NoData, "0x09"}}
  \cup {[to |-> MockContract, value |-> 0, data |-> ApproveMaxData, gas |-> 0,
         hasFrom |-> TRUE]}

\* The classifier in default-allow mode, or in allow-list mode with an empty
\* allow set or with one allowed address; system contracts allowed or not.
ClsCreateInit ==
  /\ allowlistMode \in BOOLEAN
  /\ allowlist \in (IF allowlistMode THEN {{}, NewAllowlist({MockAddress})}
                                     ELSE {{}})
  /\ blocklist = NewBlocklist({})
  /\ allowSystemContracts \in BOOLEAN

\* One caller who submits contract creations to a firewall.
InitCreate == LedgerFwInit /\ ClsCreateInit /\ FwConfigInit

NextCreate ==
  \/ \E t \in CreateTxSet : FwBegin("A", t)
  \/ FwGasPrice("A")
  \/ FwEstimateGas("A")
  \/ FwSimCall("A")
  \/ FwSimEstimateGas("A")
  \/ FwForget("A")

SpecCreate == InitCreate /\ [][NextCreate]_vars

\* One caller of a firewall whose chain collaborator may be silent.
InitOne == LedgerOneInit /\ ClsFwInit /\ OneConfigInit

NextOne ==
  \/ \E t \in TxSet : FwBegin("A", t)
  \/ FwGasPrice("A")
  \/ FwEstimateGas("A")
  \/ FwSimCall("A")
  \/ FwSimEstimateGas("A")
  \/ FwRecordSpend("A")
  \/ FwForget("A")
  \/ Tick

SpecOne == InitOne /\ [][NextOne]_vars

\* The same, with the event loop running every continuation whose promise
\* has settled: weak fairness of the steps of check() that follow an await.
SpecOneFair ==
  /\ SpecOne
  /\ WF_vars(FwGasPrice("A"))
  /\ WF_vars(FwEstimateGas("A"))
  /\ WF_vars(FwSimCall("A"))
  /\ WF_vars(FwSimEstimateGas("A"))

\* ------------------------------------------------- history helpers
RECURSIVE SumSpent(_)
\* The total recorded over the set of ticks S.
SumSpent(S) ==
  IF S = {} THEN 0
  ELSE LET t == CHOOSE x \in S : TRUE IN spentAt[t] + SumSpent(S \ {t})

\* The ticks of calendar day d.
TicksOfDay(d) == {t \in Ticks : GetTodayDate(t) = d}

\* The ticks of the 24-hour window that starts at tick t.
Window(t) == {u \in Ticks : t <= u /\ u < t + TicksPerDay}

LedgerCalls == {"check", "recordSpend", "getStatus"}

\* ------------------------------------------------------------ claims
\* C1: in every state that follows a recordSpend call, dailySpend <= maxDaily
\* (the daily limit cannot be exceeded without a manual reset).
C1_SpendWithinCapAfterRecord ==
  op.name = "recordSpend" => dailySpend <= maxDaily

C3_CheckThenRecordIsAtomic ==
  hasPayer => dailySpend <= maxDaily

C5_DailyBoundary ==
  (op.name = "check" /\ op.amount <= maxPerTx) =>
    /\ ret.allowed <=> (dailySpend + op.amount <= maxDaily)
    /\ ret.allowed => ret.remainingDaily = maxDaily - dailySpend - op.amount
    /\ ~ret.allowed => ret.reason = "would exceed daily limit"

C5_Witness ==
  /\ op.name = "check"
  /\ op.amount > 0
  /\ op.amount <= maxPerTx
  /\ dailySpend > 0
  /\ dailySpend + op.amount = maxDaily
  /\ ret.allowed
  /\ ret.remainingDaily = 0

C7_AcceptedChecksAccumulate ==
  hasPayer => acceptedSum.sum <= maxDaily

C9_Rolling24h ==
  (/\ disciplined
   /\ manualResetDate = 0 - 1
   /\ \A t \in Ticks : spentAt[t] >= 0) =>
    \A t \in Ticks : SumSpent(Window(t)) <= maxDaily


\* C10: in every classifier state an address in the block set is classified
\* 'blocked' with allowed = FALSE, also when it is in the allow set or the
\* system-safe set.
C10_BlockDominates ==
  /\ \A addr \in Addresses :
       ToLower(addr) \in blocklist =>
         (ClassifyNow(addr).status = "blocked" /\ ~ClassifyNow(addr).allowed)
  /\ (op.name = "allowlist.check" /\ ToLower(op.addr) \in blocklist) =>
       (ret.status = "blocked" /\ ~ret.allowed)

C10_Witness ==
  /\ op.name = "allowlist.check"
  /\ op.addr = UsdcAddress
  /\ allowSystemContracts
  /\ allowlistMode
  /\ ToLower(UsdcAddress) \in allowlist
  /\ ToLower(UsdcAddress) \in blocklist
  /\ ToLower(UsdcAddress) \in SystemContracts
  /\ ret.status = "blocked"

\* C11: check(address) returns the reference decision in every classifier
\* state: 'blocked' exactly for members of the block set; otherwise
\* 'system_safe' exactly when system contracts are honoured and the address
\* is one; otherwise 'not_in_allowlist' exactly in allowlist mode for
\* non-members of the allow set; otherwise 'allowed'. allowed is FALSE
\* exactly for 'blocked' and 'not_in_allowlist'.
C11_ClassifyMatchesReference ==
  \A addr \in Addresses :
    LET r == IF op.name = "allowlist.check" /\ op.addr = addr
               THEN ret ELSE ClassifyNow(addr)
        a == ToLower(addr)
        isBlocked == a \in blocklist
        isSystem == allowSystemContracts /\ a \in SystemContracts
        isListed == a \in allowlist
    IN /\ r.status = "blocked" <=> isBlocked
       /\ r.status = "system_safe" <=> (~isBlocked /\ isSystem)
       /\ r.status = "not_in_allowlist" <=>
            (~isBlocked /\ ~isSystem /\ allowlistMode /\ ~isListed)
       /\ r.status = "allowed" <=>
            (~isBlocked /\ ~isSystem /\ (allowlistMode => isListed))
       /\ r.allowed <=> r.status \notin {"blocked", "not_in_allowlist"}
       /\ r.contractAddress = addr

C11_Witness ==
  /\ op.name = "allowlist.check"
  /\ op.addr = UsdcAddress
  /\ allowlistMode
  /\ ~allowSystemContracts
  /\ ToLower(UsdcAddress) \notin allowlist
  /\ ToLower(UsdcAddress) \notin blocklist
  /\ ToLower(MockAddress) \in allowlist
  /\ ret.status = "not_in_allowlist"
  /\ ~ret.allowed

C13_PerTxRejectionWithoutRpc ==
  \A c \in Callers :
    (/\ hasPayer
     /\ cs[c].pc = "done"
     /\ result[c].stage = "limits"
     /\ cs[c].tx.value > maxPerTx) =>
      /\ ~result[c].allowed
      /\ result[c].reason = "exceeds per-tx limit"
      /\ ~InLog(cs[c].log, "simulate")
      /\ \A x \in RpcCalls : ~InLog(cs[c].log, x)

\* C14: with simulation required, a check is accepted only with a successful
\* simulation attached, and a failed simulation gives allowed = FALSE with
\* the reason "Simulation failed: <error of the simulation>" and the
\* simulation attached; with simulation not required, simulate is never
\* called and no decision carries a simulation result.
C14_SimulationGate ==
  \A c \in Callers :
    /\ (requireSimulation /\ cs[c].pc = "done" /\ result[c].kind # "none") =>
           /\ result[c].allowed =>
                /\ result[c].hasSim
                /\ result[c].sim.success
                /\ InLog(cs[c].log, "simulate")
           /\ (result[c].hasSim /\ ~result[c].sim.success) =>
                /\ ~result[c].allowed
                /\ result[c].reason = "Simulation failed: " \o result[c].sim.error
                /\ result[c].sim.error # "none"
    /\ ~requireSimulation =>
         /\ cs[c].pc \notin {"simCall", "simEstimateGas"}
         /\ ~InLog(cs[c].log, "simulate")
         /\ ~InLog(cs[c].log, "call")
         /\ ~result[c].hasSim

C14_Witness ==
  /\ requireSimulation
  /\ hasPayer
  /\ cs["A"].pc = "done"
  /\ result["A"].hasSim
  /\ ~result["A"].sim.success
  /\ result["A"].sim.error = "Transaction would revert"
  /\ result["A"].reason = "Simulation failed: Transaction would revert"
  /\ result["A"].hasEst
  /\ InLog(cs["A"].log, "limits.check")

\* C15 as stated: without a payer no check calls estimateSpend or
\* limits.check, no decision carries an estimated spend or a spend reason,
\* whatever the value, and every decision's warnings hold the notice that
\* spending limits are not enforced.
C15_NoPayerEveryDecisionWarns ==
  ~hasPayer =>
    \A c \in Callers :
      /\ cs[c].pc \notin {"gasPrice", "estimateGas"}
      /\ ~InLog(cs[c].log, "estimateSpend")
      /\ ~InLog(cs[c].log, "limits.check")
      /\ (cs[c].pc = "done" /\ result[c].kind # "none") =>
           /\ ~result[c].hasEst
           /\ result[c].stage # "limits"
           /\ result[c].reason \notin
                {"exceeds per-tx limit", "would exceed daily limit"}
           /\ "No payer address provided - spending limits not enforced"
                \in result[c].warnings

\* C15, amended: the same, with the notice in the warnings of every decision
\* of a check that passed step 1 (a destination rejected at step 1 returns
\* before the notice is added).
C15_NoPayerNoLimits ==
  ~hasPayer =>
    \A c \in Callers :
      /\ cs[c].pc \notin {"gasPrice", "estimateGas"}
      /\ ~InLog(cs[c].log, "estimateSpend")
      /\ ~InLog(cs[c].log, "limits.check")
      /\ (cs[c].pc = "done" /\ result[c].kind # "none") =>
           /\ ~result[c].hasEst
           /\ result[c].stage # "limits"
           /\ result[c].reason \notin
                {"exceeds per-tx limit", "would exceed daily limit"}
           /\ result[c].stage # "contracts" =>
                "No payer address provided - spending limits not enforced"
                  \in result[c].warnings

C15_Witness ==
  /\ ~hasPayer
  /\ cs["A"].pc = "done"
  /\ cs["A"].tx.value > maxPerTx
  /\ cs["A"].tx.value > maxDaily
  /\ result["A"].allowed
  /\ ~result["A"].hasEst
  /\ "No payer address provided - spending limits not enforced"
       \in result["A"].warnings

\* C16: check() never rejects its promise: every check that has returned
\* returned a FirewallResult, also when getGasPrice, estimateGas and every
\* attempt of call failed, and a dry-run that failed on every attempt gives
\* allowed = FALSE with a reason.
C16_CheckNeverThrows ==
  \A c \in Callers :
    /\ result[c].kind \in {"none", "firewall"}
    /\ cs[c].pc = "done" =>
         /\ result[c].kind = "firewall"
         /\ ~result[c].allowed => result[c].reason # "none"
         /\ (result[c].hasSim /\ ~result[c].sim.success) =>
              /\ ~result[c].allowed
              /\ result[c].stage = "simulation"

C16_Witness ==
  /\ cs["A"].pc = "done"
  /\ result["A"].kind = "firewall"
  /\ result["A"].stage = "simulation"
  /\ ~result["A"].allowed
  /\ result["A"].reason = "Simulation failed: Simulation failed: network timeout"
  /\ "Could not fetch gas price, using default 1 gwei" \in result["A"].warnings
  /\ "Could not estimate gas, using default" \in result["A"].warnings

\* C17: a check that awaits an answer of a silent chain collaborator
\* eventually returns, and returns a rejection.
C17_SilentChainFailsClosed ==
  (~chainAnswers /\ cs["A"].pc \in AwaitingChain)
    ~> (cs["A"].pc = "done" /\ ~result["A"].allowed)

\* C18: simulate() of a simulator with budget maxRetries (2 when none is
\* configured) never issues more than maxRetries calls; it returns
\* success = TRUE after N calls, N <= maxRetries, when the first N - 1
\* failed and the N-th succeeded, and success = FALSE after exactly
\* maxRetries calls when every one failed. The calls issued are the failed
\* attempts that were retried (the loop counter i) plus the one pending or
\* last.
C18_AttemptsWithinBudget ==
  \A c \in Callers :
    /\ NewMaxRetries(0) = 2
    /\ cs[c].pc = "simulate.call" => cs[c].i + 1 <= maxRetries
    /\ (op.name = "simulate" /\ op.caller = c /\ cs[c].pc = "done") =>
         /\ ret.kind = "simulation"
         /\ ret.success => cs[c].i + 1 <= maxRetries
         /\ ~ret.success => cs[c].i + 1 = maxRetries

C18_Witness ==
  /\ op.name = "simulate"
  /\ cs["A"].pc = "done"
  /\ maxRetries = 3
  /\ cs["A"].i = 2
  /\ cs["A"].lastError = "network timeout"
  /\ ret.kind = "simulation"
  /\ ret.success

\* C19: a failed attempt of client.call() is retried only when its error is
\* neither an insufficient-funds error nor a revert error: whenever a
\* further attempt is pending, the error of the attempt before it is an
\* unclassified one.
C19_ClassifiedErrorsNotRetried ==
  \A c \in Callers :
    (cs[c].pc = "simulate.call" /\ cs[c].i > 0) =>
      /\ ~Includes(ToLowerCase(cs[c].lastError), "insufficient funds")
      /\ ~Includes(ToLowerCase(cs[c].lastError), "revert")

C21_AdvisoryNeverFails ==
  (op.name = "simulate" /\ cs["A"].pc = "done" /\ cs["A"].lastCall = "ok") =>
    /\ ret.kind = "simulation"
    /\ ret.success
    /\ ret.returnData \in {"0x08c379a0", "0x08c379a000"} =>
         "Transaction includes revert reason - check contract state" \in ret.warnings
    /\ ret.returnData = "0x4e487b7101" =>
         "Transaction would trigger panic (overflow, div by zero, etc.)"
            \in ret.warnings
    /\ (ret.hasGasUsed /\ ret.gasUsed > 500000) =>
         "High gas usage estimated" \in ret.warnings
    /\ (ret.hasGasUsed /\ ret.gasUsed <= 500000) =>
         "High gas usage estimated" \notin ret.warnings
    /\ (NeedsGasEstimate(cs["A"].tx) /\ ~ret.hasGasUsed) =>
         "Could not estimate gas usage" \in ret.warnings
    /\ "Could not estimate gas usage" \in ret.warnings => ~ret.hasGasUsed

\* C21 witness: a successful simulation whose return data carries the
\* revert-reason prefix and whose gas estimate was exactly 500,000: the
\* revert-reason warning is there and the high-gas warning is not.
C21_Witness ==
  /\ op.name = "simulate"
  /\ cs["A"].pc = "done"
  /\ cs["A"].lastCall = "ok"
  /\ ret.success
  /\ ret.returnData = "0x08c379a000"
  /\ ret.hasGasUsed
  /\ ret.gasUsed = 500000
  /\ ret.warnings = {"Transaction includes revert reason - check contract state"}

\* C22. Whenever the chain answers estimateSpend with bigints or fails,
\* estimateSpend returns estimatedSpend = value + gasPrice * gasEstimate
\* (a missing value counts as 0), where gasPrice is the fetched price, or
\* 1 gwei with a warning if the fetch failed, and gasEstimate is the gas the
\* intent supplies, else the chain's estimate, else, with a warning, 100000
\* for non-empty calldata and 21000 for a plain transfer.
C22_EstimatedSpendFormula ==
  (/\ op.name = "estimateSpend"
   /\ cs["A"].pc = "done"
   /\ op.price.value # NotABigint
   /\ op.gas.value # NotABigint) =>
    LET t == cs["A"].tx
        gasPrice == IF op.price.ok THEN op.price.value ELSE 1
        gasEstimate == IF t.gas # 0 THEN t.gas
                       ELSE IF op.gas.ok THEN op.gas.value
                       ELSE IF HasCalldata(t) THEN 100000 ELSE 21000
        estimateFailed == op.gas # NotAsked /\ ~op.gas.ok
    IN /\ ret.kind = "estimate"
       /\ ret.estimatedSpend = t.value + gasPrice * gasEstimate
       /\ ret.gasPrice = gasPrice
       /\ ("Could not fetch gas price, using default 1 gwei" \in ret.warnings)
            <=> ~op.price.ok
       /\ ("Could not estimate gas, using default" \in ret.warnings)
            <=> estimateFailed

\* C23. estimateSpend never propagates an error: every call returns a
\* numeric estimatedSpend, whether the gas price fetch or the gas estimate
\* failed or not, and when a statement of its try block throws (the chain
\* answered with something that is not a bigint) it returns the fixed
\* fallback of 0.1 ETH at a gas price of 1 gwei with a warning.
C23_EstimateSpendNeverThrows ==
  (op.name = "estimateSpend" /\ cs["A"].pc = "done") =>
    /\ ret.kind = "estimate"
    /\ ret.estimatedSpend >= 0
    /\ (op.price.value = NotABigint \/ op.gas.value = NotABigint) =>
         /\ ret.estimatedSpend = 100000000
         /\ ret.gasPrice = 1
         /\ "Spend estimation failed" \in ret.warnings

\* C23 witness: the gas price fetch failed and the gas estimate resolved with
\* something that is not a bigint; the fallback comes back with both warnings.
C23_Witness ==
  /\ op.name = "estimateSpend"
  /\ cs["A"].pc = "done"
  /\ ~op.price.ok
  /\ op.gas.value = NotABigint
  /\ ret.kind = "estimate"
  /\ ret.estimatedSpend = 100000000
  /\ ret.warnings = {"Could not fetch gas price, using default 1 gwei",
                     "Spend estimation failed"}

\* The address addr is in the block set / is honoured as a system contract.
IsBlocked(addr) == ToLower(addr) \in blocklist
IsSystemSafe(addr) == allowSystemContracts /\ ToLower(addr) \in SystemContracts

\* allow(addr) has just returned TRUE.
AllowReturnedTrue(addr) ==
  op.name = "addToAllowlist" /\ op.addr = addr /\ ret.value

\* C24. In allow-list mode an address that is not blocked, not system-safe and
\* not in the allow set is classified not_in_allowlist; once allow(address)
\* has returned TRUE, the same address is classified allowed in every later
\* state unless it is blocked; and a call of allow that returns TRUE grows
\* the allow set by that (lower-cased) address only and leaves the block set
\* alone.
C24_AllowThenAllowed ==
  /\ [](\A addr \in Addresses :
          (allowlistMode /\ ~IsBlocked(addr) /\ ~IsSystemSafe(addr)
             /\ ToLower(addr) \notin allowlist) =>
            /\ ClassifyNow(addr).status = "not_in_allowlist"
            /\ (op.name = "allowlist.check" /\ op.addr = addr) =>
                 ret.status = "not_in_allowlist")
  /\ \A addr \in Addresses :
       [](AllowReturnedTrue(addr) =>
            []((~IsBlocked(addr) /\ ~IsSystemSafe(addr)) =>
                 /\ ClassifyNow(addr).status = "allowed"
                 /\ (op.name = "allowlist.check" /\ op.addr = addr) =>
                      ret.status = "allowed"))
  /\ [][\A addr \in Addresses :
          (op' = [name |-> "addToAllowlist", addr |-> addr] /\ ret'.value) =>
            /\ allowlist' = allowlist \cup {ToLower(addr)}
            /\ blocklist' = blocklist]_vars

\* C24 witness: allow(MockContract) has just returned TRUE on a classifier
\* whose allow set held one other address; MockContract is neither blocked
\* nor a system contract and is now classified allowed.
C24_Witness ==
  /\ allowlistMode
  /\ AllowReturnedTrue(MockContract)
  /\ allowlist = {ToLower(MockAddress), MockContract}
  /\ ~IsBlocked(MockContract)
  /\ ~IsSystemSafe(MockContract)
  /\ ClassifyNow(MockContract).status = "allowed"

\* C25. In default-allow mode allow(address) returns FALSE and leaves the
\* whole classifier state unchanged (no allow set appears, the block set is
\* untouched), and no step of block() or allow() changes the mode chosen at
\* construction, in either direction.
C25_ModeNeverChanges ==
  [][/\ allowlistMode' = allowlistMode
     /\ (~allowlistMode /\ op'.name = "addToAllowlist") =>
          /\ ret' = [kind |-> "bool", value |-> FALSE]
          /\ allowlist' = {}
          /\ UNCHANGED clsVars]_vars

\* C25 witness: on a default-allow classifier with a block set grown at run
\* time, allow(MockContract) has returned FALSE; there is no allow set and
\* MockContract is classified as before.
C25_Witness ==
  /\ ~allowlistMode
  /\ op = [name |-> "addToAllowlist", addr |-> MockContract]
  /\ ret = [kind |-> "bool", value |-> FALSE]
  /\ allowlist = {}
  /\ ToLower(MockAddress) \in blocklist
  /\ ClassifyNow(MockContract).status = "allowed"

\* block(addr) has just returned.
BlockReturned(addr) == op = [name |-> "addToBlocklist", addr |-> addr]

HexLetterPairs ==
  {<<"a", "A">>, <<"b", "B">>, <<"c", "C">>, <<"d", "D">>, <<"e", "E">>,
   <<"f", "F">>}

\* The address strings a and b are equal or differ only in letter case.
SameButCase(a, b) ==
  /\ Len(a) = Len(b)
  /\ \A i \in 1..Len(a) :
       \/ a[i] = b[i]
       \/ <<a[i], b[i]>> \in HexLetterPairs
       \/ <<b[i], a[i]>> \in HexLetterPairs

\* C27. Classification is case-insensitive: two address strings that differ
\* only in letter case get the same status and the same allowed flag in
\* every classifier state, whether the sets were filled by the construction
\* config or by block() / allow() at run time; neither set ever holds two
\* spellings of one address, and adding a spelling of an address the set
\* already holds leaves the set as it is, while adding a new address grows it
\* by one element.
C27_CaseInsensitive ==
  /\ [](/\ \A a, b \in Addresses :
             SameButCase(a, b) =>
               /\ ClassifyNow(a).status = ClassifyNow(b).status
               /\ ClassifyNow(a).allowed = ClassifyNow(b).allowed
        /\ \A set \in {allowlist, blocklist} :
             \A x, y \in set : SameButCase(x, y) => x = y)
  /\ [][/\ op'.name = "addToBlocklist" =>
             IF \E m \in blocklist : SameButCase(m, op'.addr)
               THEN blocklist' = blocklist
               ELSE Cardinality(blocklist') = Cardinality(blocklist) + 1
        /\ (op'.name = "addToAllowlist" /\ allowlistMode) =>
             IF \E m \in allowlist : SameButCase(m, op'.addr)
               THEN allowlist' = allowlist
               ELSE Cardinality(allowlist') = Cardinality(allowlist) + 1]_vars

\* C27 witness: block(MockAddress) in its mixed-case spelling has returned on
\* a classifier that holds one spelling of it and the built-in entry; both
\* spellings are classified blocked and USDC, configured as allowed in lower
\* case, is classified by its mixed-case spelling.
C27_Witness ==
  /\ op = [name |-> "addToBlocklist", addr |-> MockAddress]
  /\ blocklist = {ZeroAddress, ToLower(MockAddress)}
  /\ ClassifyNow(MockAddress).status = "blocked"
  /\ ClassifyNow(ToLower(MockAddress)).status = "blocked"
  /\ allowlistMode
  /\ ~allowSystemContracts
  /\ allowlist = {ToLower(UsdcAddress)}
  /\ ClassifyNow(UsdcAddress).status = "allowed"

\* The hex strings s and t denote the same bytes: they are equal up to the
\* case of the hex letters.
SameHex(s, t) ==
  /\ Len(s) = Len(t)
  /\ \A i \in 1..Len(s) :
       LET a == SubSeq(s, i, i)
           b == SubSeq(t, i, i)
       IN a = b \/ <<a, b>> \in HexLetterPairs \/ <<b, a>> \in HexLetterPairs

\* The calldata is an approval (selector bytes 09 5e a7 b3) whose second
\* 32-byte parameter slot, hex digits 75 to 138 of the string, is all 0xFF.
IsUnlimitedApproval(data) ==
  /\ Len(data) >= 138
  /\ SameHex(SubSeq(data, 1, 10), "0x095ea7b3")
  /\ SameHex(SubSeq(data, 75, 138), MaxWord)

\* The calldata strings of the model that are unlimited approvals.
UnlimitedApprovals == {d \in ScanDatas : IsUnlimitedApproval(d)}

\* C28. The decision of an accepted check of an intent with calldata carries
\* the 'unlimited approval' warning exactly when the calldata is an approval
\* whose second 32-byte parameter slot is all 0xFF bytes; an approval of zero
\* or of another amount, an approval too short to hold the second slot and
\* any other selector do not get it.
C28_UnlimitedApprovalExactly ==
  (/\ op.name = "firewall.check"
   /\ cs["A"].pc = "done"
   /\ result["A"].kind = "firewall"
   /\ result["A"].allowed) =>
    (("UNLIMITED APPROVAL detected" \in result["A"].warnings)
       <=> cs["A"].tx.data \in UnlimitedApprovals)

\* The warnings the calldata scan can emit.
ScanWarningTexts == {"suspicious selector", "UNLIMITED APPROVAL detected"}

\* C29. The calldata scan is advisory. Every check ends in a decision, and
\* a rejected one was rejected by stage 1, 2 or 3 (a destination that is not
\* allowed, an estimate over a cap, a failed simulation), never by the scan:
\* once those stages have passed, the decision is allowed whatever the
\* calldata. The scan only adds warnings: the accepted decision keeps every
\* warning gathered before it and the simulation's warnings. An intent
\* without calldata or with calldata shorter than a selector gets no scan
\* warning.
C29_ScanIsAdvisory ==
  /\ [](( /\ op.name = "firewall.check"
          /\ cs["A"].pc = "done" ) =>
         LET r == result["A"]
             t == cs["A"].tx
         IN /\ r.kind = "firewall"
            /\ ~r.allowed =>
                 \/ r.stage = "contracts" /\ ~ClassifyNow(t.to).allowed
                 \/ /\ r.stage = "limits"
                    /\ r.hasEst
                    /\ \/ r.estimatedSpend > maxPerTx
                       \/ dailySpend + r.estimatedSpend > maxDaily
                 \/ r.stage = "simulation" /\ r.hasSim /\ ~r.sim.success
            /\ r.allowed =>
                 /\ r.hasSim => r.sim.warnings \subseteq r.warnings
                 /\ Len(t.data) < 10 => r.warnings \cap ScanWarningTexts = {})
  /\ [][( /\ cs["A"].pc \in {"simCall", "simEstimateGas"}
          /\ cs'["A"].pc = "done"
          /\ result'["A"].allowed ) =>
         cs["A"].warnings \subseteq result'["A"].warnings]_vars

\* C29 witness: with a payer and simulation required, the unlimited approval
\* passed stages 1 to 3 and is accepted with both scan warnings next to the
\* warnings of the earlier stages.
C29_Witness ==
  /\ hasPayer
  /\ requireSimulation
  /\ op.name = "firewall.check"
  /\ cs["A"].pc = "done"
  /\ cs["A"].tx.data = ApproveMaxData
  /\ result["A"].allowed
  /\ result["A"].hasSim
  /\ result["A"].hasEst
  /\ ScanWarningTexts \subseteq result["A"].warnings
  /\ "Could not estimate gas usage" \in result["A"].warnings
  /\ "Contract interaction with no ETH value - check token approvals"
       \in result["A"].warnings

\* C30. With dryRun off, a wrapper transfer or contract call that the guard
\* rejects returns success = FALSE with blocked = TRUE and the guard's
\* reason, and in that run sendTransaction and recordSpend are never called.
C30_RejectedActionIsBlocked ==
  (/\ op.name \in {"transfer", "contract_call"}
   /\ cs["A"].pc = "done"
   /\ ~dryRun
   /\ op.guard \in GuardResults
   /\ ~op.guard.allowed) =>
    /\ ret.kind = "action"
    /\ ~ret.success
    /\ ret.blocked
    /\ ret.reason = op.guard.reason
    /\ ~InLog(cs["A"].log, "sendTransaction")
    /\ ~InLog(cs["A"].log, "recordSpend")

\* The calls a wrapper method makes, in the order the code makes them.
WrapOrder ==
  <<"guardTransaction", "estimateGas", "sendTransaction", "recordSpend", "audit.log">>

\* The position of the call x in WrapOrder.
WrapPos(x) == CHOOSE i \in DOMAIN WrapOrder : WrapOrder[i] = x

\* The calls of the log happened in the order of WrapOrder, each at most once.
InWrapOrder(log) ==
  \A i, j \in DOMAIN log : i < j => WrapPos(log[i]) < WrapPos(log[j])

\* A transfer or callContract of caller A is running or has just returned.
WrapValueAction == op.name \in {"transfer", "contract_call"}

C32_ResetRestoresAllowance ==
  /\ [](ENABLED ResetDailySpend)
  /\ [](op.name = "resetDailySpend" =>
          /\ dailySpend = 0
          /\ lastResetDate = Today
          /\ RemainingDaily(dailySpend, lastResetDate, Today) = maxDaily)
  /\ [][op'.name = "resetDailySpend" =>
          /\ dailySpend' = 0
          /\ lastResetDate' = GetTodayDate(now)
          /\ UNCHANGED <<maxPerTx, maxDaily, now>>]_vars

\* A reset on day 1 of a ledger that had recorded its whole daily cap on
\* day 0.
C32_Witness ==
  /\ op.name = "resetDailySpend"
  /\ Today = 1
  /\ lastResetDate = 1
  /\ dailySpend = 0
  /\ maxDaily = MaxCap
  /\ nRec = MaxRecords
  /\ SumSpent(TicksOfDay(0)) = MaxCap
  /\ SumSpent(TicksOfDay(1)) = 0

\* In the log, x was entered before y whenever both were.
Before(log, x, y) ==
  \A i, j \in DOMAIN log : (log[i] = x /\ log[j] = y) => i < j

\* The warnings simulate() can put into its result.
SimWarningTexts ==
  {"Check ETH balance and gas requirements", "Contract execution would fail",
   "Transaction includes revert reason - check contract state",
   "Transaction would trigger panic (overflow, div by zero, etc.)",
   "High gas usage estimated", "Could not estimate gas usage"}

\* C33. check() runs its stages in the fixed order classify, estimate and
\* ledger, simulate, calldata scan, and a decision rejected at one stage
\* holds nothing of a later stage. A rejection by the ledger carries the
\* contract-check results and the estimated spend, has no simulation result,
\* and simulate was not called. A rejection by the simulation carries the
\* simulation result and the warnings of stages 2 and 3 and no warning of
\* the calldata scan.
C33_StagesInOrder ==
  \A c \in Callers :
    LET log == cs[c].log
        r == result[c]
        t == cs[c].tx
    IN /\ Before(log, "estimateSpend", "limits.check")
       /\ Before(log, "limits.check", "simulate")
       /\ Before(log, "simulate", "call")
       /\ InLog(log, "limits.check") => InLog(log, "estimateSpend")
       /\ InLog(log, "simulate") => (hasPayer <=> InLog(log, "limits.check"))
       /\ (cs[c].pc = "done" /\ r.kind = "firewall") =>
            /\ r.contractsChecked = ContractChecks(t)
            /\ Len(r.contractsChecked) = Len(ExtractContractAddresses(t))
            /\ r.stage = "contracts" =>
                 /\ ~r.allowed /\ ~r.hasEst /\ ~r.hasSim /\ log = <<>>
                 /\ r.warnings = {}
            /\ r.stage = "limits" =>
                 /\ ~r.allowed
                 /\ \A k \in DOMAIN r.contractsChecked : r.contractsChecked[k].allowed
                 /\ r.hasEst
                 /\ r.estimatedSpend >= t.value
                 /\ ~r.hasSim
                 /\ ~InLog(log, "simulate") /\ ~InLog(log, "call")
                 /\ r.warnings \cap (SimWarningTexts \cup ScanWarningTexts) = {}
            /\ r.stage = "simulation" =>
                 /\ ~r.allowed
                 /\ \A k \in DOMAIN r.contractsChecked : r.contractsChecked[k].allowed
                 /\ r.hasSim /\ ~r.sim.success
                 /\ InLog(log, "simulate")
                 /\ r.hasEst <=> hasPayer
                 /\ r.sim.warnings \subseteq r.warnings
                 /\ IF hasPayer
                      THEN SpendWarnings(t, t.gas) \subseteq r.warnings
                      ELSE "No payer address provided - spending limits not enforced"
                             \in r.warnings
                 /\ r.warnings \cap ScanWarningTexts = {}

\* With a payer and simulation required, an approval with the maximum
\* amount passed the ledger and failed in the simulation: the decision holds
\* the estimate, the warning of the estimate and the one of the simulation,
\* and none of the scan, which would have flagged this calldata.
C33_Witness ==
  /\ hasPayer /\ requireSimulation
  /\ cs["A"].pc = "done"
  /\ cs["A"].tx.data = ApproveMaxData
  /\ CalldataWarnings[ApproveMaxData] = ScanWarningTexts
  /\ result["A"].stage = "simulation"
  /\ result["A"].hasEst
  /\ result["A"].reason = "Simulation failed: Transaction would revert"
  /\ "Contract execution would fail" \in result["A"].warnings
  /\ "Transaction contains high-risk function calls" \in result["A"].warnings
  /\ result["A"].contractsChecked = <<ClassifyNow(MockContract)>>
  /\ cs["A"].log = <<"estimateSpend", "getGasPrice", "limits.check", "simulate", "call">>

\* C34. With a payer configured, no accepted decision is returned for an
\* intent whose value exceeds maxPerTx or whose value plus the current
\* dailySpend exceeds maxDaily: on every path of estimateSpend (normal,
\* gas-price fallback, gas-estimate fallback, total-failure fallback) the
\* estimated spend compared against the ledger is at least the intent's
\* value.
C34_AcceptedWithinCaps ==
  \A c \in Callers :
    (/\ hasPayer
     /\ cs[c].pc = "done"
     /\ result[c].kind = "firewall"
     /\ result[c].allowed) =>
      /\ result[c].hasEst
      /\ result[c].estimatedSpend >= cs[c].tx.value
      /\ cs[c].tx.value <= maxPerTx
      /\ cs[c].tx.value + MaybeResetDaily(dailySpend, lastResetDate, Today).dailySpend
           <= maxDaily

\* This step is a recordSpend that directly follows a recordSpend of the
\* same amount, on the same day.
SecondRecordOfSameAmount ==
  /\ op.name = "recordSpend"
  /\ op'.name = "recordSpend"
  /\ op'.amount = op.amount
  /\ nRec' = nRec + 1
  /\ lastResetDate = Today
  /\ now' = now

\* C35 as stated. recordSpend is idempotent: a second recordSpend(amount)
\* with the same amount in the same period leaves dailySpend equal to its
\* value after the first call.
C35_RecordSpendIdempotent ==
  [][SecondRecordOfSameAmount => dailySpend' = dailySpend]_vars

\* C35, amended. recordSpend accumulates: a second recordSpend(amount) with
\* the same amount in the same period adds the amount once more, and only
\* for the amount 0 is dailySpend left as it was.
C35_RecordSpendAccumulates ==
  [][SecondRecordOfSameAmount =>
       /\ dailySpend' = dailySpend + op.amount
       /\ (dailySpend' = dailySpend <=> op.amount = 0)]_vars

\* Two recordSpend calls of the same positive amount were made at one
\* instant, and the counter holds twice the amount.
C35_Witness ==
  /\ op.name = "recordSpend"
  /\ op.amount > 0
  /\ nRec = 2
  /\ spentAt[now] = 2 * op.amount
  /\ SumSpent(Ticks) = spentAt[now]
  /\ lastResetDate = Today
  /\ dailySpend = 2 * op.amount

\* C36. dailySpend is an unsigned quantity: in every reachable state, after
\* any sequence of check, recordSpend (with any argument the call accepts
\* without throwing, a negative one included), resetDailySpend and
\* getStatus, dailySpend >= 0.
C36_SpendNeverNegative ==
  dailySpend >= 0

\* max(0, maxDaily - dailySpend)
RemainingClamped == IF maxDaily > dailySpend THEN maxDaily - dailySpend ELSE 0

\* C37. The remaining allowance reported by the firewall (getRemainingDaily()
\* and getStatus().spending.remainingDaily) equals maxDaily - dailySpend and
\* is never negative in any reachable state, and the remainingDaily returned
\* by a rejected ledger check is max(0, maxDaily - dailySpend).
C37_RemainingNeverNegative ==
  /\ op.name = "getRemainingDaily" =>
       /\ ret.remainingDaily = maxDaily - dailySpend
       /\ ret.remainingDaily >= 0
  /\ op.name = "firewall.getStatus" =>
       /\ ret.spending.remainingDaily = maxDaily - dailySpend
       /\ ret.spending.remainingDaily >= 0
  /\ (op.name = "check" /\ ~ret.allowed) =>
       ret.remainingDaily = RemainingClamped

\* This step is caller A's wrapper action returning success.
WrapSucceeds ==
  /\ cs["A"].pc = "wrap.send"
  /\ ret'.kind = "action"
  /\ ret'.success

\* C38. After a successful wrapper action dailySpend has increased by
\* exactly the transaction's native value and never by its gas cost:
\* transfer adds its value, callContract adds its value only when it is
\* positive, and approveToken, transferToken and contract calls without value
\* leave the ledger unchanged, although the estimate the check compares with
\* the caps is value + gas cost.
C38_RecordsValueOnly ==
  [][WrapSucceeds =>
       LET t == cs["A"].tx
           r == MaybeResetDaily(dailySpend, lastResetDate, Today)
       IN /\ t.gas > 0
          /\ EstimatedSpend(t, ChainGasPrice, t.gas) > t.value
          /\ IF op.name = "transfer" \/ (op.name = "contract_call" /\ t.value > 0)
               THEN /\ dailySpend' = r.dailySpend + t.value
                    /\ spentAt'[now] = spentAt[now] + t.value
                    /\ nRec' = nRec + 1
                    /\ lastResetDate' = Today
               ELSE /\ op.name \in {"contract_call", "token_approve", "token_transfer"}
                    /\ t.value = 0
                    /\ UNCHANGED <<dailySpend, lastResetDate, spentAt, nRec>>]_vars

\* A transfer of one value unit was broadcast and recorded, and then an
\* approveToken was broadcast: the ledger holds the value of the transfer
\* and nothing for the approval or for the gas of either.
C38_Witness ==
  /\ op.name = "token_approve"
  /\ cs["A"].pc = "done"
  /\ ret.kind = "action" /\ ret.success
  /\ cs["A"].tx.gas = ChainGasEstimate
  /\ cs["A"].log = <<"guardTransaction", "estimateGas", "sendTransaction", "audit.log">>
  /\ nRec = 1
  /\ dailySpend = ValueUnit
  /\ SumSpent(Ticks) = ValueUnit

\* The intents of the model, with and without destination.
AllTxs == TxSet \cup EstTxSet \cup CreateTxSet \cup CapTxSet \cup ScanTxSet

\* C39. extractContractAddresses returns exactly the intent's destination
\* when it has one and the empty list otherwise, so an intent without
\* destination (a contract creation) is never rejected at the
\* classification stage, in any classifier state, allow-list mode with an
\* empty allow set included; it proceeds to the spend and simulation stages.
C39_NoDestinationPassesClassification ==
  /\ \A t \in AllTxs :
       ExtractContractAddresses(t) = IF t.to = <<>> THEN <<>> ELSE <<t.to>>
  /\ \A c \in Callers :
       (cs[c].pc # "idle" /\ cs[c].tx.to = <<>>) =>
         LET log == cs[c].log
             r == result[c]
         IN /\ hasPayer => InLog(log, "estimateSpend")
            /\ cs[c].pc = "done" =>
                 /\ r.kind = "firewall"
                 /\ r.stage # "contracts"
                 /\ r.contractsChecked = <<>>
                 /\ hasPayer <=> (r.hasEst /\ InLog(log, "limits.check"))
                 /\ (requireSimulation /\ r.stage # "limits") =>
                      (r.hasSim /\ InLog(log, "simulate"))

\* In allow-list mode with an empty allow set a contract creation with value
\* went through the estimate, the ledger and the simulation and was accepted
\* without any contract check; a call of a contract is rejected there.
C39_Witness ==
  /\ allowlistMode /\ allowlist = {}
  /\ ~ClassifyNow(MockContract).allowed
  /\ hasPayer /\ requireSimulation
  /\ cs["A"].pc = "done"
  /\ cs["A"].tx.to = <<>>
  /\ cs["A"].tx.value = ValueUnit
  /\ result["A"].allowed
  /\ result["A"].contractsChecked = <<>>
  /\ result["A"].hasEst /\ result["A"].hasSim
  /\ InLog(cs["A"].log, "limits.check") /\ InLog(cs["A"].log, "simulate")

\* Both caps are positive.
CapsArePositive == maxPerTx > 0 /\ maxDaily > 0

\* C40. Constructing the ledger (or the firewall) with a zero or negative
\* maxPerTx or maxDaily fails with a configuration error: every constructed
\* ledger has positive caps, and no ledger with a zero or negative cap
\* reaches a state in which check or recordSpend has been called.
C40_BadCapsFailAtConstruction ==
  /\ op.name = "new" => CapsArePositive
  /\ op.name \in {"check", "recordSpend"} => CapsArePositive

====
